---- MODULE Spec2Model ----
(***************************************************************************)
(* gittuf remote helper: handleCurl (internal/git-remote-gittuf/curl.go).  *)
(*                                                                         *)
(* A byte string is a sequence of symbols; a symbol is a TLA+ string that  *)
(* stands for the bytes it spells.  Whitespace, ":" and NUL are always     *)
(* symbols of their own, and a reference name is split after its           *)
(* "refs/<namespace>/" prefix, so that equal byte strings are equal        *)
(* sequences and the prefix, substring and split operations of the code    *)
(* are computed on the symbols.                                            *)
(*                                                                         *)
(* handleCurl is followed with a program counter: "scan" is the top of the *)
(* main loop, "alreadyScanned" the label of that name, "pushLoop" and      *)
(* "pushFlush" the loop of the push case and its range loop, "rd..." the   *)
(* read loops of the child's stdout, "shutdown" the code after the main    *)
(* loop, "returned" and "panic" the two ways the function ends.            *)
(*                                                                         *)
(* The splitters (splitInput, splitOutput), packetEncode, the wrappers of  *)
(* the scanners and pipes and the packet constants are not part of the     *)
(* sources at hand: tokens arrive already split, Bytes() yields the token  *)
(* scanned, and writes to the pipes succeed.                               *)
(***************************************************************************)
EXTENDS Integers, Sequences, FiniteSets, TLC

(* ------------------------------ bounds -------------------------------- *)
\* push commands the controller sends in one invocation
MaxPush == 2
\* data packets the child emits in answer to one exchange
MaxResp == 2
\* controller packets of one service exchange before only flush-pkt is sent
MaxCtl == 3
\* wants batches of one fetch
MaxRounds == 2

(* ------------------------- byte string helpers ------------------------ *)
SP == " "
NL == "\n"
NUL == "NUL"
COLON == ":"

\* unicode.IsSpace restricted to the symbols of the model
IsSpace(c) == c \in {SP, NL}

\* bytes.HasPrefix / strings.HasPrefix
HasPrefix(s, p) == Len(s) >= Len(p) /\ SubSeq(s, 1, Len(p)) = p

\* bytes.Contains
Contains(s, p) ==
    \E i \in 1..(Len(s) - Len(p) + 1) : SubSeq(s, i, i + Len(p) - 1) = p

\* strings.IndexByte, 0-based, -1 when absent
IndexByte(s, c) ==
    IF \E i \in 1..Len(s) : s[i] = c
    THEN (CHOOSE i \in 1..Len(s) : s[i] = c /\ \A j \in 1..(i - 1) : s[j] # c) - 1
    ELSE -1

RECURSIVE TrimLeft(_)
TrimLeft(s) ==
    IF s # <<>> /\ IsSpace(Head(s)) THEN TrimLeft(Tail(s)) ELSE s

RECURSIVE TrimRight(_)
TrimRight(s) ==
    IF s # <<>> /\ IsSpace(s[Len(s)]) THEN TrimRight(SubSeq(s, 1, Len(s) - 1)) ELSE s

\* bytes.TrimSpace / strings.TrimSpace
TrimSpace(s) == TrimRight(TrimLeft(s))

\* bytes.Split / strings.Split on a one-byte separator: always at least one
\* field, an empty input gives one empty field
RECURSIVE Split(_, _)
Split(s, c) ==
    LET i == IndexByte(s, c)
    IN  IF i < 0 THEN <<s>>
        ELSE <<SubSeq(s, 1, i)>> \o Split(SubSeq(s, i + 2, Len(s)), c)

\* len() of a byte string
RECURSIVE ByteLen(_)
ByteLen(s) == IF s = <<>> THEN 0 ELSE Len(Head(s)) + ByteLen(Tail(s))

HexDigits == <<"0", "1", "2", "3", "4", "5", "6", "7",
               "8", "9", "a", "b", "c", "d", "e", "f">>

\* fmt "%04x"
Hex4(n) ==
    HexDigits[((n \div 4096) % 16) + 1] \o HexDigits[((n \div 256) % 16) + 1]
        \o HexDigits[((n \div 16) % 16) + 1] \o HexDigits[(n % 16) + 1]

\* packetEncode: fmt.Sprintf("%04x%s", 4+len(str), str)
packetEncode(str) == <<Hex4(4 + ByteLen(str))>> \o str

(* ----------------------------- constants ------------------------------ *)
flushPkt == <<"0000">>
delimiterPkt == <<"0001">>
endOfReadPkt == <<"0002">>
gittufRefPrefix == <<"refs/gittuf/">>
gitUploadPack == <<"git-upload-pack">>
\* rsl.Ref
rslRef == <<"refs/gittuf/", "reference-state-log">>

\* the states of the helper
start == "start"
serviceRouter == "serviceRouter"
lsRefs == "lsRefs"
lsRefsResponse == "lsRefsResponse"
requestingWants == "requestingWants"
packfileIncoming == "packfileIncoming"
packfileDone == "packfileDone"

(* ------------------------ what the peers send ------------------------- *)
\* Scan() returned false: end of input
EOF == <<>>

\* commands of the controller while it speaks the remote-helper text protocol
cmdCapabilities == <<"capabilities", NL>>
cmdListForPush == <<"list", SP, "for-push", NL>>
cmdPushMain == <<"push", SP, "refs/heads/", "topic", COLON, "refs/heads/", "main", NL>>
cmdPushPolicy == <<"push", SP, "refs/gittuf/", "policy", COLON, "refs/gittuf/", "policy", NL>>
cmdConnectUpload == <<"stateless-connect", SP, "git-upload-pack", NL>>
cmdConnectReceive == <<"stateless-connect", SP, "git-receive-pack", NL>>
blankLine == <<NL>>

PushCommands == {cmdPushMain, cmdPushPolicy}
TextCommands ==
    {cmdCapabilities, cmdListForPush, cmdConnectUpload, cmdConnectReceive, blankLine}

\* packets of the controller inside a stateless-connect session
pktLsRefs == packetEncode(<<"command=ls-refs", NL>>)
pktFetch == packetEncode(<<"command=fetch", NL>>)
pktWant == packetEncode(<<"want", SP, "cafebabe", NL>>)
\* a packet that contains both command keywords
pktFetchLsRefs == packetEncode(<<"command=fetch", SP, "command=ls-refs", NL>>)

\* lines and packets of the child helper
lineMain == <<"cafe", SP, "refs/heads/", "main", NL>>
lineRSL == <<"deadbeef", SP, "refs/gittuf/", "reference-state-log", NL>>
linePolicy == <<"f00d", SP, "refs/gittuf/", "policy", NL>>
\* the policy ref at another commit
linePolicyMoved == <<"beef", SP, "refs/gittuf/", "policy", NL>>
\* a symbolic reference to a gittuf ref: refs/gittuf/ is not in the name
lineSymref == <<"@", "refs/gittuf/", "policy", SP, "refs/heads/", "alias", NL>>
okMain == <<"ok", SP, "refs/heads/", "main", NL>>
okRSL == <<"ok", SP, "refs/gittuf/", "reference-state-log", NL>>
capLine == <<"stateless-connect", NL>>
adMain == packetEncode(lineMain)
adRSL == packetEncode(lineRSL)
adPolicyCaps == packetEncode(<<"f00d", SP, "refs/gittuf/", "policy", NUL, "agent=git", NL>>)
pktVersion == packetEncode(<<"version", SP, "2", NL>>)
pktPack == packetEncode(<<"PACK">>)

ConnectPkts == {blankLine, pktVersion, flushPkt}
ListLines == {lineMain, lineRSL, linePolicy, linePolicyMoved, lineSymref, flushPkt}
ReportLines == {okMain, okRSL, flushPkt}
OtherLines == {capLine, flushPkt}
LsRefsPkts == {adMain, adRSL, adPolicyCaps, delimiterPkt, flushPkt, endOfReadPkt}
PackPkts == {pktPack, flushPkt, endOfReadPkt}

(* ------------------------------- state -------------------------------- *)
VARIABLES
    pc,              \* where handleCurl is
    currentState,    \* curl.go:50
    command,         \* the token being dispatched, curl.go:52
    gittufRefsTips,  \* curl.go:44
    pushCommands,    \* curl.go:45
    service,         \* curl.go:46
    isPush,          \* curl.go:47
    isPacketMode,    \* package variable set at curl.go:245
    idx,             \* position of the range loop of curl.go:144
    err,             \* the error handleCurl returns, "" for nil
    closed,          \* what the shutdown has released, in order
    childEOF,        \* the child has closed its stdout
    ret,             \* the map and the flag handleCurl returns
    ctlEOF,          \* the controller has closed its end of stdin
    \* history of the exchange in progress (reset when a new top-level
    \* command or a new service command is scanned)
    fromCtl,         \* tokens scanned from the controller
    toChild,         \* tokens written to the child's stdin
    fromChild,       \* tokens scanned from the child's stdout
    toCtl,           \* tokens written to the controller
    rslRuns,         \* `gittuf rsl record` runs, each with the number of
                     \* tokens written to the child when it completed
    reader,          \* the read loop that scanned fromChild
    rounds,          \* wants batches begun in this fetch
    state0,          \* currentState when the exchange began
    tips0,           \* gittufRefsTips when the exchange began
    isPush0,         \* isPush when the exchange began
    advertised,      \* the child has sent a token naming refs/gittuf/
    \* the pkt-line splitter at work on a byte stream (PktLineSpec):
    \* sent, the frames written whole; wire, the bytes written and not yet
    \* read; buf, the bytes read and not yet split; frames, the tokens
    \* emitted; eof, the writer has closed; torn, the writer closed in the
    \* middle of a frame; state, "run", "done" or "failed"
    codec,
    \* a repository and the outcome of the last call on it (RepositorySpec)
    repo,
    \* the references of a repository, its reference state log and the
    \* outcome of the last operation on it (RSLSpec)
    rslLog,
    \* the RSL of the local repository, that of a remote and the outcome of
    \* the last operation between the two (SyncSpec)
    sync,
    \* the attestations tracked in a repository and the outcome of the last
    \* operation on them (AttestationsSpec)
    attestations

prog == <<pc, currentState, command, gittufRefsTips, pushCommands, service,
          isPush, isPacketMode, idx, err, closed, childEOF, ret, ctlEOF>>
hist == <<fromCtl, toChild, fromChild, toCtl, rslRuns, reader, rounds, state0,
          tips0, isPush0, advertised>>
others == <<codec, repo, rslLog, sync, attestations>>
vars == <<prog, hist, others>>

\* map[string]string{}
EmptyMap == [k \in {} |-> <<>>]

\* m[k] = v on a Go map
MapSet(m, k, v) == [r \in DOMAIN m \cup {k} |-> IF r = k THEN v ELSE m[r]]

\* `return nil, false, err`
ReturnError == [nilMap |-> TRUE, tips |-> EmptyMap, isPush |-> FALSE]

\* the flag is returned false
ReturnTips_DropsPush(tips, push) == [nilMap |-> FALSE, tips |-> tips, isPush |-> FALSE]

\* curl.go:387 `return gittufRefsTips, isPush, nil`
ReturnTips(tips, push) == [nilMap |-> FALSE, tips |-> tips, isPush |-> push]

\* the splitter at the start of a stream: nothing written, read or emitted
NoCodec == [sent |-> <<>>, wire |-> <<>>, buf |-> <<>>, frames |-> <<>>,
            eof |-> FALSE, torn |-> FALSE, state |-> "run"]

\* handleCurl has been called and has started the child
HandleCurlInit ==
    /\ pc = "scan"
    /\ currentState = start
    /\ command = <<>>
    /\ gittufRefsTips = EmptyMap
    /\ pushCommands = <<>>
    /\ service = <<>>
    /\ isPush = FALSE
    /\ isPacketMode = FALSE
    /\ idx = 0
    /\ err = ""
    /\ closed = <<>>
    /\ childEOF = FALSE
    /\ ret = ReturnError
    /\ ctlEOF = FALSE
    /\ fromCtl = <<>>
    /\ toChild = <<>>
    /\ fromChild = <<>>
    /\ toCtl = <<>>
    /\ rslRuns = <<>>
    /\ reader = "none"
    /\ rounds = 0
    /\ state0 = start
    /\ tips0 = EmptyMap
    /\ isPush0 = FALSE
    /\ advertised = FALSE

\* refs/heads/main at the zero hash, an empty RSL, no call made: commits is
\* the number of commits added to refs/heads/main, the n-th of which has
\* the identifier n; rsl is the log of reference entries, oldest first; call
\* holds the last call of VerifyRef on the repository as it is; devMode,
\* gittuf is in developer mode; cmd holds the last command run on the
\* repository with the path it took and the error it returned
NoRepository ==
    [commits |-> 0, rsl |-> <<>>, call |-> <<>>, devMode |-> FALSE, cmd |-> <<>>]

\* neither reference exists, the RSL is empty, nothing has been run: refs
\* gives each reference its target, "" when it does not exist; rsl is the
\* log, oldest entry first, an entry's identifier being its position; ret
\* holds the last operation and the error it returned
NoLog ==
    [refs |-> [ref \in {"refs/heads/main", "refs/heads/not-main"} |-> ""],
     rsl |-> <<>>, ret |-> <<>>]

\* a local repository without an RSL reference and an empty remote: local
\* and remote are the tips of the two RSLs; hasLocalRef, the local RSL
\* reference exists; remoteOther, the remote has a reference other than the
\* RSL; ret holds the last operation and what it returned
NoSync ==
    [hasLocalRef |-> FALSE, local |-> <<>>, remote |-> <<>>,
     remoteOther |-> FALSE, ret |-> <<>>]

\* no attestation is tracked: the two maps of Attestations, from the path of
\* an attestation to the blob that holds its envelope, and in ret the last
\* operation with what it returned
NoAttestations ==
    [referenceAuthorizations |-> EmptyMap,
     githubPullRequestApprovalAttestations |-> EmptyMap,
     ret |-> <<>>]

Init ==
    /\ HandleCurlInit
    /\ codec = NoCodec
    /\ repo = NoRepository
    /\ rslLog = NoLog
    /\ sync = NoSync
    /\ attestations = NoAttestations

(* --------------------------- the environment -------------------------- *)
\* what the controller may send next at the top of the main loop (git runs
\* one helper per transport: it opens a stateless-connect session only in an
\* invocation in which it has sent no push command)
CtlTokens ==
    IF currentState = start
    THEN (IF pushCommands = <<>>
          THEN TextCommands
          ELSE TextCommands \ {cmdConnectUpload, cmdConnectReceive})
         \cup (IF Len(pushCommands) < MaxPush THEN PushCommands ELSE {})
    ELSE IF currentState = serviceRouter
    THEN {pktLsRefs, pktFetch, pktFetchLsRefs, pktWant, flushPkt}
    ELSE (IF Len(fromCtl) < MaxCtl THEN {pktWant, delimiterPkt} ELSE {}) \cup {flushPkt}

\* what the controller may send next inside a push batch
BatchTokens ==
    (IF Len(pushCommands) + 1 < MaxPush THEN PushCommands ELSE {}) \cup {blankLine}

\* what the controller may send after a response-end-pkt of a fetch
RoundTokens ==
    IF rounds < MaxRounds
    THEN (IF Len(fromCtl) < MaxCtl THEN {pktWant} ELSE {}) \cup {flushPkt}
    ELSE {}

\* what the next Scan() of the controller's stdin may return: end of input
\* at any time, and nothing else after it
CtlSends(toks) == IF ctlEOF THEN {EOF} ELSE toks \cup {EOF}

\* what the next Scan() of the child's stdout may return: the child speaks
\* only when it has been written to, and may close its stdout at any time
ChildSends(pkts, term) ==
    IF childEOF \/ toChild = <<>> THEN {EOF}
    ELSE IF Len(fromChild) < MaxResp THEN pkts \cup {EOF}
    ELSE {term, EOF}

(* ------------------------------ main loop ----------------------------- *)
\* for stdInScanner.Scan() { command := stdInScanner.Bytes() ... }
Scan ==
    /\ pc = "scan"
    /\ \E tok \in CtlSends(CtlTokens) :
        IF tok = EOF
        THEN /\ pc' = "shutdown"
             /\ ctlEOF' = TRUE
             /\ UNCHANGED <<command, hist>>
        ELSE /\ pc' = "alreadyScanned"
             /\ command' = tok
             /\ UNCHANGED ctlEOF
             /\ IF currentState \in {start, serviceRouter}
                THEN /\ fromCtl' = <<tok>>
                     /\ toChild' = <<>>
                     /\ fromChild' = <<>>
                     /\ toCtl' = <<>>
                     /\ rslRuns' = <<>>
                     /\ reader' = "none"
                     /\ rounds' = 0
                     /\ state0' = currentState
                     /\ tips0' = gittufRefsTips
                     /\ isPush0' = isPush
                     /\ UNCHANGED advertised
                ELSE /\ fromCtl' = Append(fromCtl, tok)
                     /\ UNCHANGED <<toChild, fromChild, toCtl, rslRuns, reader,
                                    rounds, state0, tips0, isPush0, advertised>>
    /\ UNCHANGED <<currentState, gittufRefsTips, pushCommands, service, isPush,
                   isPacketMode, idx, err, closed, ret, others, childEOF>>

\* which case of the switch of curl.go:60 a command of state start takes
IsStatelessConnect(cmd) == HasPrefix(cmd, <<"stateless-connect">>)
IsListForPush(cmd) == ~IsStatelessConnect(cmd) /\ HasPrefix(cmd, <<"list", SP, "for-push">>)
IsPushCommand(cmd) ==
    ~IsStatelessConnect(cmd) /\ ~IsListForPush(cmd) /\ HasPrefix(cmd, <<"push">>)
IsOtherCommand(cmd) ==
    ~IsStatelessConnect(cmd) /\ ~IsListForPush(cmd) /\ ~IsPushCommand(cmd)

\* one turn of a read loop that copies the child's tokens to the controller
\* until `term`: the token is written when `forward` holds
CopyFromChild(out, name, forward) ==
    /\ fromChild' = Append(fromChild, out)
    /\ toCtl' = IF forward THEN Append(toCtl, out) ELSE toCtl
    /\ reader' = name
    /\ advertised' = (advertised \/ Contains(out, gittufRefPrefix))

\* the read loop ended because the child closed its stdout
ChildClosed ==
    /\ childEOF' = TRUE
    /\ UNCHANGED <<fromChild, toCtl, reader, advertised>>

(* ------------------------- stateless-connect -------------------------- *)
\* case bytes.HasPrefix(command, "stateless-connect"), up to the read loop
StatelessConnect ==
    /\ pc = "alreadyScanned"
    /\ currentState = start
    /\ IsStatelessConnect(command)
    /\ service' = Split(TrimSpace(command), SP)[2]
    /\ currentState' = serviceRouter
    /\ toChild' = Append(toChild, command)
    /\ pc' = "rdConnect"
    /\ UNCHANGED <<command, gittufRefsTips, pushCommands, isPush, isPacketMode,
                   idx, err, closed, ret, ctlEOF, others, childEOF>>
    /\ UNCHANGED <<fromCtl, fromChild, toCtl, rslRuns, reader, rounds,
                   state0, tips0, isPush0, advertised>>

\* the loop of curl.go:76
ReadInitialInfo ==
    /\ pc = "rdConnect"
    /\ \E out \in ChildSends(ConnectPkts, flushPkt) :
        IF out = EOF
        THEN ChildClosed /\ pc' = "scan"
        ELSE /\ CopyFromChild(out, "connect", TRUE)
             /\ pc' = IF out = flushPkt THEN "scan" ELSE "rdConnect"
             /\ UNCHANGED childEOF
    /\ UNCHANGED <<currentState, command, gittufRefsTips, pushCommands, service,
                   isPush, isPacketMode, idx, err, closed, ret, ctlEOF, others>>
    /\ UNCHANGED <<fromCtl, toChild, rslRuns, rounds, state0, tips0, isPush0>>

(* --------------------------- list for-push ---------------------------- *)
ListForPush ==
    /\ pc = "alreadyScanned"
    /\ currentState = start
    /\ IsListForPush(command)
    /\ toChild' = Append(toChild, command)
    /\ pc' = "rdList"
    /\ UNCHANGED <<currentState, command, gittufRefsTips, pushCommands, service,
                   isPush, isPacketMode, idx, err, closed, ret, ctlEOF, others, childEOF>>
    /\ UNCHANGED <<fromCtl, fromChild, toCtl, rslRuns, reader, rounds,
                   state0, tips0, isPush0, advertised>>

\* refs/gittuf/ is looked for anywhere in the line
TipsAfterListLine_AnyMention(tips, output) ==
    LET refAdSplit == Split(TrimSpace(output), SP)
    IN  IF Len(refAdSplit) >= 2 /\ Contains(output, gittufRefPrefix)
        THEN MapSet(tips, refAdSplit[2], refAdSplit[1])
        ELSE tips

\* curl.go:101-106: the map after one line of the list has been looked at
TipsAfterListLine(tips, output) ==
    LET refAdSplit == Split(TrimSpace(output), SP)
    IN  IF Len(refAdSplit) >= 2 /\ HasPrefix(refAdSplit[2], gittufRefPrefix)
        THEN MapSet(tips, refAdSplit[2], refAdSplit[1])
        ELSE tips

\* the loop of curl.go:98
ReadListForPush ==
    /\ pc = "rdList"
    /\ \E out \in ChildSends(ListLines, flushPkt) :
        IF out = EOF
        THEN ChildClosed /\ pc' = "scan" /\ UNCHANGED gittufRefsTips
        ELSE /\ gittufRefsTips' = TipsAfterListLine(gittufRefsTips, out)
             /\ CopyFromChild(out, "list", TRUE)
             /\ pc' = IF out = flushPkt THEN "scan" ELSE "rdList"
             /\ UNCHANGED childEOF
    /\ UNCHANGED <<currentState, command, pushCommands, service, isPush,
                   isPacketMode, idx, err, closed, ret, ctlEOF, others>>
    /\ UNCHANGED <<fromCtl, toChild, rslRuns, rounds, state0, tips0, isPush0>>

(* -------------------------------- push -------------------------------- *)
\* case bytes.HasPrefix(command, "push"): curl.go:117-119
Push ==
    /\ pc = "alreadyScanned"
    /\ currentState = start
    /\ IsPushCommand(command)
    /\ isPush' = TRUE
    /\ pc' = "pushLoop"
    /\ UNCHANGED <<currentState, command, gittufRefsTips, pushCommands, service,
                   isPacketMode, idx, err, closed, ret, ctlEOF, others, childEOF>>
    /\ UNCHANGED hist

\* curl.go:181-189: the command is not the blank line; buffer it and scan
\* the next statement of the batch
PushBuffer ==
    /\ pc = "pushLoop"
    /\ command # blankLine
    /\ pushCommands' = Append(pushCommands, command)
    /\ \E tok \in CtlSends(BatchTokens) :
        IF tok = EOF
        THEN /\ pc' = "rdReport"
             /\ ctlEOF' = TRUE
             /\ UNCHANGED <<command, fromCtl>>
        ELSE /\ pc' = "pushLoop"
             /\ command' = tok
             /\ fromCtl' = Append(fromCtl, tok)
             /\ UNCHANGED ctlEOF
    /\ UNCHANGED <<currentState, gittufRefsTips, service, isPush, isPacketMode,
                   idx, err, closed, ret, others, childEOF>>
    /\ UNCHANGED <<toChild, fromChild, toCtl, rslRuns, reader, rounds,
                   state0, tips0, isPush0, advertised>>

\* curl.go:122: the blank line ends the batch; the range loop begins
PushTerminator ==
    /\ pc = "pushLoop"
    /\ command = blankLine
    /\ idx' = 1
    /\ pc' = "pushFlush"
    /\ UNCHANGED <<currentState, command, gittufRefsTips, pushCommands, service,
                   isPush, isPacketMode, err, closed, ret, ctlEOF, others, childEOF>>
    /\ UNCHANGED hist

\* curl.go:146-149
RefSpec(pushCommand) == Split(TrimSpace(pushCommand), SP)[2]
SrcRef(pushCommand) == Split(RefSpec(pushCommand), COLON)[1]
DstRef(pushCommand) == Split(RefSpec(pushCommand), COLON)[2]

\* the record is run whether or not the remote advertised a gittuf ref
NeedsRSLRecord_IgnoresTips(tips, pushCommand) ==
    ~HasPrefix(DstRef(pushCommand), gittufRefPrefix)

\* curl.go:145 and 151: is `gittuf rsl record` run for this push command
NeedsRSLRecord(tips, pushCommand) ==
    /\ Cardinality(DOMAIN tips) # 0
    /\ ~HasPrefix(DstRef(pushCommand), gittufRefPrefix)

\* the two references are passed in the wrong places
RSLRecordRun_Swapped(pushCommand, ok) ==
    [dst |-> SrcRef(pushCommand), src |-> DstRef(pushCommand), ok |-> ok,
     at |-> Len(toChild)]

\* exec.Command("gittuf", "rsl", "record", "--dst-ref", dstRef, srcRef).Run()
\* completing with the given outcome
RSLRecordRun(pushCommand, ok) ==
    [dst |-> DstRef(pushCommand), src |-> SrcRef(pushCommand), ok |-> ok,
     at |-> Len(toChild)]

\* the outcome of the run is dropped
RecordFailed_Ignored(ok) == FALSE

\* curl.go:155 `if err := cmd.Run(); err != nil`
RecordFailed(ok) == ~ok

\* one iteration of the range loop of curl.go:144-164
PushForward ==
    /\ pc = "pushFlush"
    /\ idx <= Len(pushCommands)
    /\ LET pushCommand == pushCommands[idx]
       IN  IF NeedsRSLRecord(gittufRefsTips, pushCommand)
           THEN \E ok \in BOOLEAN :
                   /\ rslRuns' = Append(rslRuns, RSLRecordRun(pushCommand, ok))
                   /\ IF RecordFailed(ok)
                      THEN /\ pc' = "returned"
                           /\ err' = "rsl record"
                           /\ ret' = ReturnError
                           /\ UNCHANGED <<toChild, idx>>
                      ELSE /\ toChild' = Append(toChild, pushCommand)
                           /\ idx' = idx + 1
                           /\ UNCHANGED <<pc, err, ret>>
           ELSE /\ toChild' = Append(toChild, pushCommand)
                /\ idx' = idx + 1
                /\ UNCHANGED <<pc, err, ret, rslRuns>>
    /\ UNCHANGED <<currentState, command, gittufRefsTips, pushCommands, service,
                   isPush, isPacketMode, closed, childEOF, ctlEOF, others>>
    /\ UNCHANGED <<fromCtl, fromChild, toCtl, reader, rounds, state0, tips0,
                   isPush0, advertised>>

\* fmt.Sprintf("push %s:%s\n", rsl.Ref, rsl.Ref)
rslPushLine == <<"push", SP>> \o rslRef \o <<COLON>> \o rslRef \o <<NL>>

\* the RSL is pushed whether or not the remote advertised a gittuf ref
BatchTrailer_AlwaysRSL(tips) == <<rslPushLine, blankLine>>

\* curl.go:166-176: what follows the buffered push commands
BatchTrailer(tips) ==
    (IF Cardinality(DOMAIN tips) # 0 THEN <<rslPushLine>> ELSE <<>>) \o <<blankLine>>

\* the range loop is over: curl.go:166-178
PushFinish ==
    /\ pc = "pushFlush"
    /\ idx > Len(pushCommands)
    /\ toChild' = toChild \o BatchTrailer(gittufRefsTips)
    /\ pc' = "rdReport"
    /\ UNCHANGED <<currentState, command, gittufRefsTips, pushCommands, service,
                   isPush, isPacketMode, idx, err, closed, ret, ctlEOF, others, childEOF>>
    /\ UNCHANGED <<fromCtl, fromChild, toCtl, rslRuns, reader, rounds,
                   state0, tips0, isPush0, advertised>>

\* the report is copied without the filter
ReportForwarded_All(output) == TRUE

\* curl.go:198: is this token of the push report written to the controller
ReportForwarded(output) == ~Contains(output, gittufRefPrefix)

\* the loop of curl.go:195
ReadPushReport ==
    /\ pc = "rdReport"
    /\ \E out \in ChildSends(ReportLines, flushPkt) :
        IF out = EOF
        THEN ChildClosed /\ pc' = "scan"
        ELSE /\ CopyFromChild(out, "report", ReportForwarded(out))
             /\ pc' = IF out = flushPkt THEN "scan" ELSE "rdReport"
             /\ UNCHANGED childEOF
    /\ UNCHANGED <<currentState, command, gittufRefsTips, pushCommands, service,
                   isPush, isPacketMode, idx, err, closed, ret, ctlEOF, others>>
    /\ UNCHANGED <<fromCtl, toChild, rslRuns, rounds, state0, tips0, isPush0>>

(* ---------------------------- other commands -------------------------- *)
\* default: curl.go:218-224
PassThrough ==
    /\ pc = "alreadyScanned"
    /\ currentState = start
    /\ IsOtherCommand(command)
    /\ toChild' = Append(toChild, command)
    /\ pc' = "rdOther"
    /\ UNCHANGED <<currentState, command, gittufRefsTips, pushCommands, service,
                   isPush, isPacketMode, idx, err, closed, ret, ctlEOF, others, childEOF>>
    /\ UNCHANGED <<fromCtl, fromChild, toCtl, rslRuns, reader, rounds,
                   state0, tips0, isPush0, advertised>>

\* the loop waits for the sentinel of the other read loops
OtherDone_OnResponseEnd(output) == output = endOfReadPkt

\* curl.go:237: does this token end the read loop
OtherDone(output) == output = flushPkt

\* the loop of curl.go:230
ReadOther ==
    /\ pc = "rdOther"
    /\ \E out \in ChildSends(OtherLines, flushPkt) :
        IF out = EOF
        THEN ChildClosed /\ pc' = "scan"
        ELSE /\ CopyFromChild(out, "other", TRUE)
             /\ pc' = IF OtherDone(out) THEN "scan" ELSE "rdOther"
             /\ UNCHANGED childEOF
    /\ UNCHANGED <<currentState, command, gittufRefsTips, pushCommands, service,
                   isPush, isPacketMode, idx, err, closed, ret, ctlEOF, others>>
    /\ UNCHANGED <<fromCtl, toChild, rslRuns, rounds, state0, tips0, isPush0>>

(* --------------------------- service router --------------------------- *)
\* the service is not looked at
RouterNext_AnyService(svc, cmd) ==
    IF Contains(cmd, <<"command=ls-refs">>) THEN lsRefs
    ELSE IF Contains(cmd, <<"command=fetch">>) THEN requestingWants
    ELSE serviceRouter

\* a fetch goes straight to the packfile
RouterNext_FetchSkipsWants(svc, cmd) ==
    IF svc = gitUploadPack
    THEN IF Contains(cmd, <<"command=ls-refs">>) THEN lsRefs
         ELSE IF Contains(cmd, <<"command=fetch">>) THEN packfileIncoming
         ELSE serviceRouter
    ELSE serviceRouter

\* curl.go:246-254: the state after the router has looked at a packet
RouterNext(svc, cmd) ==
    IF svc = gitUploadPack
    THEN IF Contains(cmd, <<"command=ls-refs">>) THEN lsRefs
         ELSE IF Contains(cmd, <<"command=fetch">>) THEN requestingWants
         ELSE serviceRouter
    ELSE serviceRouter

\* case serviceRouter: curl.go:243-262
ServiceRouter ==
    /\ pc = "alreadyScanned"
    /\ currentState = serviceRouter
    /\ isPacketMode' = TRUE
    /\ currentState' = RouterNext(service, command)
    /\ toChild' = Append(toChild, command)
    /\ rounds' = IF RouterNext(service, command) = requestingWants THEN 1 ELSE rounds
    /\ pc' = "scan"
    /\ UNCHANGED <<command, gittufRefsTips, pushCommands, service, isPush, idx,
                   err, closed, ret, ctlEOF, others, childEOF>>
    /\ UNCHANGED <<fromCtl, fromChild, toCtl, rslRuns, reader, state0, tips0, isPush0,
                   advertised>>

(* ------------------------------- ls-refs ------------------------------ *)
\* curl.go:269: fmt.Sprintf("ref-prefix %s\n", gittufRefPrefix)
gittufRefPrefixCommand == <<"ref-prefix", SP>> \o gittufRefPrefix \o <<NL>>

\* the ref-prefix is written after the flush-pkt
LsRefsForward_AfterFlush(cmd) ==
    <<cmd>>
        \o (IF cmd = flushPkt THEN <<packetEncode(gittufRefPrefixCommand)>> ELSE <<>>)

\* curl.go:266-279: what is written to the child for one packet of the
\* ls-refs arguments
LsRefsForward(cmd) ==
    (IF cmd = flushPkt THEN <<packetEncode(gittufRefPrefixCommand)>> ELSE <<>>)
        \o <<cmd>>

\* case lsRefs: curl.go:264-282
LsRefs ==
    /\ pc = "alreadyScanned"
    /\ currentState = lsRefs
    /\ toChild' = toChild \o LsRefsForward(command)
    /\ IF command = flushPkt
       THEN currentState' = lsRefsResponse /\ pc' = "rdLsRefs"
       ELSE pc' = "scan" /\ UNCHANGED currentState
    /\ UNCHANGED <<command, gittufRefsTips, pushCommands, service, isPush,
                   isPacketMode, idx, err, closed, ret, ctlEOF, others, childEOF>>
    /\ UNCHANGED <<fromCtl, fromChild, toCtl, rslRuns, reader, rounds,
                   state0, tips0, isPush0, advertised>>

\* curl.go:290-295: the advertisement without its length prefix and without
\* what follows a NUL
RefAd(output) ==
    LET refAd == TrimSpace(Tail(output))
        i == IndexByte(refAd, NUL)
    IN  IF i > 0 THEN SubSeq(refAd, 1, i) ELSE refAd

\* curl.go:296-298: refAdSplit[1] is read whatever the number of fields
RefAdIndexOutOfRange(output) ==
    /\ output # flushPkt
    /\ output # endOfReadPkt
    /\ Len(Split(RefAd(output), SP)) < 2

\* every advertised reference is recorded
TipsAfterRefAd_AnyRef(tips, output) ==
    IF output # flushPkt /\ output # endOfReadPkt
    THEN LET refAdSplit == Split(RefAd(output), SP)
         IN  MapSet(tips, refAdSplit[2], refAdSplit[1])
    ELSE tips

\* curl.go:289-301: the map after one packet of the ls-refs response
TipsAfterRefAd(tips, output) ==
    IF output # flushPkt /\ output # endOfReadPkt
    THEN LET refAdSplit == Split(RefAd(output), SP)
         IN  IF HasPrefix(refAdSplit[2], gittufRefPrefix)
             THEN MapSet(tips, refAdSplit[2], refAdSplit[1])
             ELSE tips
    ELSE tips

\* the loop of curl.go:286-313
ReadLsRefsResponse ==
    /\ pc = "rdLsRefs"
    /\ \E out \in ChildSends(LsRefsPkts, endOfReadPkt) :
        IF out = EOF
        THEN /\ ChildClosed
             /\ currentState' = serviceRouter
             /\ pc' = "scan"
             /\ UNCHANGED gittufRefsTips
        ELSE IF RefAdIndexOutOfRange(out)
        THEN \* runtime panic: index out of range
             /\ fromChild' = Append(fromChild, out)
             /\ reader' = "lsRefs"
             /\ pc' = "panic"
             /\ UNCHANGED <<currentState, gittufRefsTips, childEOF, toCtl, advertised>>
        ELSE /\ gittufRefsTips' = TipsAfterRefAd(gittufRefsTips, out)
             /\ CopyFromChild(out, "lsRefs", TRUE)
             /\ IF out = endOfReadPkt
                THEN currentState' = serviceRouter /\ pc' = "scan"
                ELSE UNCHANGED <<currentState, pc>>
             /\ UNCHANGED childEOF
    /\ UNCHANGED <<command, pushCommands, service, isPush, isPacketMode, idx,
                   err, closed, ret, ctlEOF, others>>
    /\ UNCHANGED <<fromCtl, toChild, rslRuns, rounds, state0, tips0, isPush0>>

(* -------------------------------- fetch ------------------------------- *)
\* the orders in which a range over a Go map may visit its keys
Orders(S) ==
    {o \in [1..Cardinality(S) -> S] :
        \A i, j \in 1..Cardinality(S) : i # j => o[i] # o[j]}

\* the range loop is left after its first entry
GittufWants_FirstOnly(tips, order) ==
    IF order = <<>> THEN <<>>
    ELSE <<packetEncode(<<"want", SP>> \o tips[order[1]] \o <<NL>>)>>

\* the payloads are written without their length prefix
GittufWants_Unframed(tips, order) ==
    [i \in 1..Len(order) |-> <<"want", SP>> \o tips[order[i]] \o <<NL>>]

\* curl.go:322-327: one want per entry of the map, in the order visited
GittufWants(tips, order) ==
    [i \in 1..Len(order) |-> packetEncode(<<"want", SP>> \o tips[order[i]] \o <<NL>>)]

\* wantsDone outlives the batch: the wants are written for the first batch
\* of a fetch only
WantsForward_OncePerFetch(tips, order, cmd) ==
    (IF cmd = flushPkt /\ rounds <= 1 THEN GittufWants(tips, order) ELSE <<>>)
        \o <<cmd>>

\* curl.go:317-337: what is written to the child for one packet of a wants
\* batch (wantsDone is false whenever it is tested)
WantsForward(tips, order, cmd) ==
    (IF cmd = flushPkt THEN GittufWants(tips, order) ELSE <<>>) \o <<cmd>>

\* case requestingWants: curl.go:315-339
RequestingWants ==
    /\ pc = "alreadyScanned"
    /\ currentState = requestingWants
    /\ \E order \in Orders(DOMAIN gittufRefsTips) :
        toChild' = toChild \o WantsForward(gittufRefsTips, order, command)
    /\ IF command = flushPkt
       THEN currentState' = packfileIncoming /\ pc' = "rdPack"
       ELSE pc' = "scan" /\ UNCHANGED currentState
    /\ UNCHANGED <<command, gittufRefsTips, pushCommands, service, isPush,
                   isPacketMode, idx, err, closed, ret, ctlEOF, others, childEOF>>
    /\ UNCHANGED <<fromCtl, fromChild, toCtl, rslRuns, reader, rounds,
                   state0, tips0, isPush0, advertised>>

\* the loop of curl.go:345-367 (the splitter yields no empty token, so
\* len(command) == 0 is not taken)
ReadPackfile ==
    /\ pc = "rdPack"
    /\ \E out \in ChildSends(PackPkts, endOfReadPkt) :
        IF out = EOF
        THEN /\ ChildClosed
             /\ currentState' = packfileDone
             /\ pc' = "shutdown"
             /\ UNCHANGED <<command, fromCtl, rounds, ctlEOF>>
        ELSE /\ CopyFromChild(out, "packfile", TRUE)
             /\ UNCHANGED childEOF
             /\ IF out = endOfReadPkt
                THEN \E tok \in CtlSends(RoundTokens) :
                        IF tok = EOF
                        THEN /\ currentState' = packfileDone
                             /\ pc' = "shutdown"
                             /\ ctlEOF' = TRUE
                             /\ UNCHANGED <<command, fromCtl, rounds>>
                        ELSE /\ command' = tok
                             /\ fromCtl' = Append(fromCtl, tok)
                             /\ rounds' = rounds + 1
                             /\ currentState' = requestingWants
                             /\ pc' = "alreadyScanned"
                             /\ UNCHANGED ctlEOF
                ELSE UNCHANGED <<currentState, pc, command, fromCtl, rounds, ctlEOF>>
    /\ UNCHANGED <<gittufRefsTips, pushCommands, service, isPush, isPacketMode,
                   idx, err, closed, ret, others>>
    /\ UNCHANGED <<toChild, rslRuns, state0, tips0, isPush0>>

(* ------------------------------ shutdown ------------------------------ *)
\* one call of the shutdown, with its outcome: on an error handleCurl
\* returns it at once, else it goes on to `next`
Release(what, ok, next) ==
    /\ closed' = Append(closed, what)
    /\ IF ok
       THEN /\ pc' = next
            /\ UNCHANGED err
       ELSE /\ pc' = "returned"
            /\ err' = what
    /\ UNCHANGED <<currentState, command, gittufRefsTips, pushCommands, service,
                   isPush, isPacketMode, idx, childEOF, ctlEOF, others>>
    /\ UNCHANGED hist

\* curl.go:375-377 `helperStdIn.Close()`
CloseStdIn ==
    /\ pc = "shutdown"
    /\ \E ok \in BOOLEAN : Release("stdin", ok, "closeStdOut")
    /\ ret' = ReturnError

\* curl.go:379-381 `helperStdOut.Close()`
CloseStdOut ==
    /\ pc = "closeStdOut"
    /\ \E ok \in BOOLEAN : Release("stdout", ok, "wait")
    /\ ret' = ReturnError

\* curl.go:383-387 `helper.Wait()` and the return of the tips
Wait ==
    /\ pc = "wait"
    /\ \E ok \in BOOLEAN :
        /\ Release("wait", ok, "returned")
        /\ ret' = IF ok THEN ReturnTips(gittufRefsTips, isPush) ELSE ReturnError

Next ==
    \/ Scan
    \/ StatelessConnect
    \/ ReadInitialInfo
    \/ ListForPush
    \/ ReadListForPush
    \/ Push
    \/ PushBuffer
    \/ PushTerminator
    \/ PushForward
    \/ PushFinish
    \/ ReadPushReport
    \/ PassThrough
    \/ ReadOther
    \/ ServiceRouter
    \/ LsRefs
    \/ ReadLsRefsResponse
    \/ RequestingWants
    \/ ReadPackfile
    \/ CloseStdIn
    \/ CloseStdOut
    \/ Wait

Spec == Init /\ [][Next]_vars

\* a step of handleCurl other than finding the child's stdout closed
HelperStep == Next /\ childEOF' = childEOF

\* the helper is a running process and its reads are blocking: a step it
\* can take is taken, and a read returns once the other side has written or
\* closed; the child is not taken to close its stdout of its own accord
FairSpec == Spec /\ WF_vars(HelperStep)

(* ====================================================================== *)
(*                          the pkt-line codec                            *)
(* ====================================================================== *)
\* frames written to one stream, and the length field of the longest frame
MaxFrames == 2
MaxPktLen == 65535

\* the four bytes of fmt "%04x"
Hex4Bytes(n) ==
    <<HexDigits[((n \div 4096) % 16) + 1], HexDigits[((n \div 256) % 16) + 1],
      HexDigits[((n \div 16) % 16) + 1], HexDigits[(n % 16) + 1]>>

IsHexDigit(b) == \E i \in 1..16 : HexDigits[i] = b

\* the value of a hex digit
HexDigitValue(b) == (CHOOSE i \in 1..16 : HexDigits[i] = b) - 1

\* the value of the four hex digits of a header
HexValue(h) ==
    HexDigitValue(h[1]) * 4096 + HexDigitValue(h[2]) * 256
        + HexDigitValue(h[3]) * 16 + HexDigitValue(h[4])

\* may the payload be framed: its length plus four is at most 0xFFFF
Encodable(payload) == Len(payload) + 4 <= MaxPktLen

\* encode(payload): the 4-byte lowercase hex length len(payload) + 4, then
\* the payload
encode(payload) == Hex4Bytes(Len(payload) + 4) \o payload

\* flush-pkt, delim-pkt and response-end-pkt, byte by byte
Sentinels == {<<"0", "0", "0", "0">>, <<"0", "0", "0", "1">>, <<"0", "0", "0", "2">>}

\* the payloads written in the model: empty, a bare newline, a line, four
\* bytes that read as a flush-pkt, and bytes that read as a header
Payloads == {<<>>, <<NL>>, <<"a", NL>>, <<"0", "0", "0", "0">>,
             <<"0", "0", "0", "5", NL>>}

\* a valid pkt-line: a sentinel or the frame of a payload
PktLines == Sentinels \cup {encode(p) : p \in {q \in Payloads : Encodable(q)}}

\* the results of the split function
NeedMore == [advance |-> 0, token |-> <<>>, err |-> FALSE]
SplitError == [advance |-> 0, token |-> <<>>, err |-> TRUE]
Token(data, n) == [advance |-> n, token |-> SubSeq(data, 1, n), err |-> FALSE]

\* the frame is emitted without its header
splitPacket_PayloadOnly(data, atEOF) ==
    IF Len(data) < 4
    THEN (IF atEOF /\ data # <<>> THEN SplitError ELSE NeedMore)
    ELSE LET header == SubSeq(data, 1, 4)
         IN  IF \E i \in 1..4 : ~IsHexDigit(header[i]) THEN SplitError
             ELSE IF header \in Sentinels THEN Token(data, 4)
             ELSE IF HexValue(header) < 4 THEN SplitError
             ELSE IF Len(data) < HexValue(header)
             THEN (IF atEOF THEN SplitError ELSE NeedMore)
             ELSE [advance |-> HexValue(header),
                   token |-> SubSeq(data, 5, HexValue(header)), err |-> FALSE]

\* splitPacket as a bufio.SplitFunc: it reads 4 hex chars; 0000, 0001 and
\* 0002 are emitted as they are; otherwise length - 4 further bytes are read
\* and the whole frame is emitted; the end of the input between frames is a
\* clean end, inside a frame it is an error
splitPacket(data, atEOF) ==
    IF Len(data) < 4
    THEN (IF atEOF /\ data # <<>> THEN SplitError ELSE NeedMore)
    ELSE LET header == SubSeq(data, 1, 4)
         IN  IF \E i \in 1..4 : ~IsHexDigit(header[i]) THEN SplitError
             ELSE IF header \in Sentinels THEN Token(data, 4)
             ELSE IF HexValue(header) < 4 THEN SplitError
             ELSE IF Len(data) < HexValue(header)
             THEN (IF atEOF THEN SplitError ELSE NeedMore)
             ELSE Token(data, HexValue(header))

\* every variable but codec
notCodec == <<prog, hist, repo, rslLog, sync, attestations>>

\* the writer writes one valid pkt-line
WritePktLine ==
    /\ ~codec.eof
    /\ Len(codec.sent) < MaxFrames
    /\ \E f \in PktLines :
        codec' = [codec EXCEPT !.sent = Append(@, f), !.wire = @ \o f]
    /\ UNCHANGED notCodec

\* the writer closes the stream, between two frames
CloseStream ==
    /\ ~codec.eof
    /\ codec' = [codec EXCEPT !.eof = TRUE]
    /\ UNCHANGED notCodec

\* the writer is cut off inside a frame: a proper prefix of a pkt-line is
\* written and the stream ends
TearStream ==
    /\ ~codec.eof
    /\ Len(codec.sent) < MaxFrames
    /\ \E f \in PktLines : \E n \in 1..(Len(f) - 1) :
        codec' = [codec EXCEPT !.wire = @ \o SubSeq(f, 1, n),
                               !.eof = TRUE, !.torn = TRUE]
    /\ UNCHANGED notCodec

\* the scanner reads some of the bytes written into its buffer
FillBuffer ==
    /\ codec.state = "run"
    /\ \E n \in 1..Len(codec.wire) :
        codec' = [codec EXCEPT !.buf = @ \o SubSeq(codec.wire, 1, n),
                               !.wire = SubSeq(@, n + 1, Len(@))]
    /\ UNCHANGED notCodec

\* one call of the split function on the buffer by Scan()
ScanPacket ==
    /\ codec.state = "run"
    /\ LET atEOF == codec.eof /\ codec.wire = <<>>
           r == splitPacket(codec.buf, atEOF)
       IN  /\ r = NeedMore => atEOF
           /\ codec' =
                IF r.err THEN [codec EXCEPT !.state = "failed"]
                ELSE IF r = NeedMore THEN [codec EXCEPT !.state = "done"]
                ELSE [codec EXCEPT !.frames = Append(@, r.token),
                                   !.buf = SubSeq(@, r.advance + 1, Len(@))]
    /\ UNCHANGED notCodec

PktLineNext ==
    \/ WritePktLine
    \/ CloseStream
    \/ TearStream
    \/ FillBuffer
    \/ ScanPacket

PktLineSpec == Init /\ [][PktLineNext]_vars

(* ====================================================================== *)
(*                        VerifyRef on a repository                       *)
(* ====================================================================== *)
\* commits added to refs/heads/main, and entries of the RSL
MaxCommits == 2
MaxEntries == 3

\* verify_test.go:21-22 and 61
refName == "refs/heads/main"
remoteRefName == "refs/heads/not-main"
unknownRefName == "refs/heads/unknown"

\* the names VerifyRef is called with: verify_test.go:40-71
LocalRefNames == {refName, "main", unknownRefName}
RemoteRefNames == {"", refName, remoteRefName}

\* the errors of VerifyRef, "" for nil
ErrRefStateDoesNotMatchRSL == "ErrRefStateDoesNotMatchRSL"
ErrRSLEntryNotFound == "ErrRSLEntryNotFound"
ErrReferenceNotFound == "ErrReferenceNotFound"

\* gitinterface.AbsoluteReference: a name under refs/ is taken as it is, a
\* bare branch name is looked up under refs/heads/
AbsoluteReference(name) == IF name = "main" THEN refName ELSE name

\* the commit a local reference points to, -1 when there is no such
\* reference (only refs/heads/main exists: verify_test.go:24)
TipOf(r, ref) == IF ref = refName THEN r.commits ELSE -1

\* the positions in the RSL of the entries for a reference
EntriesFor(r, ref) == {i \in 1..Len(r.rsl) : r.rsl[i].ref = ref}

\* the oldest entry is taken for the latest
LatestEntryFor_Oldest(r, ref) ==
    r.rsl[CHOOSE i \in EntriesFor(r, ref) : \A j \in EntriesFor(r, ref) : j >= i]

\* the latest entry of the RSL for a reference
LatestEntryFor(r, ref) ==
    r.rsl[CHOOSE i \in EntriesFor(r, ref) : \A j \in EntriesFor(r, ref) : j <= i]

\* full verification: the entries for the reference are walked from the
\* first one on, each verified against the policy (every entry of the test
\* is signed with the authorized key), and the target of the last one
\* walked is the expected tip
RECURSIVE WalkEntries(_, _, _, _)
WalkEntries(r, ref, i, target) ==
    IF i > Len(r.rsl) THEN target
    ELSE WalkEntries(r, ref, i + 1, IF r.rsl[i].ref = ref THEN r.rsl[i].target ELSE target)

\* the tip the RSL expects of a reference
ExpectedTip(r, ref, latestOnly) ==
    IF latestOnly THEN LatestEntryFor(r, ref).target
    ELSE WalkEntries(r, ref, 1, LatestEntryFor(r, ref).target)

\* Repository.VerifyRef(ctx, localRefName, remoteRefName, latestOnly), as
\* called at verifyref.go:58 and verify_test.go:74, 84-91: the error it
\* returns
VerifyRef(r, localRef, remoteRef, latestOnly) ==
    LET localAbs == AbsoluteReference(localRef)
        remoteAbs == IF remoteRef = "" THEN localAbs ELSE AbsoluteReference(remoteRef)
    IN  IF EntriesFor(r, remoteAbs) = {} THEN ErrRSLEntryNotFound
        ELSE IF TipOf(r, localAbs) = -1 THEN ErrReferenceNotFound
        ELSE IF TipOf(r, localAbs) # ExpectedTip(r, remoteAbs, latestOnly)
        THEN ErrRefStateDoesNotMatchRSL
        ELSE ""

\* every variable but repo
notRepo == <<prog, hist, codec, rslLog, sync, attestations>>

\* common.AddNTestCommitsToSpecifiedRef(t, repo.r, refName, 1, gpgKeyBytes):
\* verify_test.go:28, 83
AddCommit ==
    /\ repo.commits < MaxCommits
    /\ repo' = [repo EXCEPT !.commits = @ + 1, !.call = <<>>, !.cmd = <<>>]
    /\ UNCHANGED notRepo

\* rsl.NewReferenceEntry(ref, commitIDs[0]) committed to the RSL by
\* common.CreateTestRSLReferenceEntryCommit: verify_test.go:29-36
CreateEntry ==
    /\ repo.commits >= 1
    /\ Len(repo.rsl) < MaxEntries
    /\ \E ref \in {refName, remoteRefName} :
        repo' = [repo EXCEPT !.rsl = Append(@, [ref |-> ref, target |-> repo.commits]),
                             !.call = <<>>, !.cmd = <<>>]
    /\ UNCHANGED notRepo

\* dev.InDevMode()
InDevMode(r) == r.devMode
ErrNotInDevMode == "ErrNotInDevMode"

\* Repository.VerifyRefFromEntry(ctx, localRefName, remoteRefName, entryID),
\* as called at verifyref.go:55 and verify_test.go:172, 184-188: the entries
\* for the reference are verified from the given one on, and the target of
\* the last one is the expected tip
VerifyRefFromEntry(r, localRef, remoteRef, entryID) ==
    LET localAbs == AbsoluteReference(localRef)
        remoteAbs == IF remoteRef = "" THEN localAbs ELSE AbsoluteReference(remoteRef)
    IN  IF EntriesFor(r, remoteAbs) = {} \/ entryID > Len(r.rsl) THEN ErrRSLEntryNotFound
        ELSE IF TipOf(r, localAbs) = -1 THEN ErrReferenceNotFound
        ELSE IF TipOf(r, localAbs) #
                    WalkEntries(r, remoteAbs, entryID, LatestEntryFor(r, remoteAbs).target)
        THEN ErrRefStateDoesNotMatchRSL
        ELSE ""

\* what a command did: the entry it was to start from (0 when none was
\* given), the verification it ran and the error it returned
Ran(op, fromEntry, path, e) ==
    <<[op |-> op, fromEntry |-> fromEntry, path |-> path, err |-> e]>>

\* the environment is set for developer mode, or no longer is:
\* verify_test.go:95
SetDevMode ==
    /\ repo' = [repo EXCEPT !.devMode = ~@, !.call = <<>>, !.cmd = <<>>]
    /\ UNCHANGED notRepo

\* verifyref.go:44-59 `options.Run`, fromEntry 0 standing for no
\* --from-entry (which --latest-only excludes: verifyref.go:34)
RunVerifyRef ==
    /\ \E localRef \in LocalRefNames, remoteRef \in RemoteRefNames,
          latestOnly \in BOOLEAN, fromEntry \in 0..MaxEntries :
        /\ fromEntry # 0 => ~latestOnly
        /\ IF fromEntry # 0
           THEN IF ~InDevMode(repo)
                THEN repo' = [repo EXCEPT !.call = <<>>,
                                !.cmd = Ran("verify-ref", fromEntry, "", ErrNotInDevMode)]
                ELSE repo' = [repo EXCEPT !.call = <<>>,
                                !.cmd = Ran("verify-ref", fromEntry, "VerifyRefFromEntry",
                                            VerifyRefFromEntry(repo, localRef, remoteRef, fromEntry))]
           ELSE repo' = [repo EXCEPT
                    !.call = <<[localRef |-> localRef, remoteRef |-> remoteRef,
                                latestOnly |-> latestOnly,
                                err |-> VerifyRef(repo, localRef, remoteRef, latestOnly)]>>,
                    !.cmd = Ran("verify-ref", 0, "VerifyRef",
                                VerifyRef(repo, localRef, remoteRef, latestOnly))]
    /\ UNCHANGED notRepo

\* the entry is written whatever the mode
RecordRSLEntryForReferenceAtTarget_Ungated(r, name, targetID) ==
    [r EXCEPT !.rsl = Append(@, [ref |-> AbsoluteReference(name), target |-> targetID]),
              !.call = <<>>,
              !.cmd = Ran("RecordRSLEntryForReferenceAtTarget", 0, "", "")]

\* Repository.RecordRSLEntryForReferenceAtTarget(refName, targetID,
\* signingKeyBytes): the repository it leaves
RecordRSLEntryForReferenceAtTarget(r, name, targetID) ==
    IF ~InDevMode(r)
    THEN [r EXCEPT !.call = <<>>,
                   !.cmd = Ran("RecordRSLEntryForReferenceAtTarget", 0, "", ErrNotInDevMode)]
    ELSE [r EXCEPT !.rsl = Append(@, [ref |-> AbsoluteReference(name), target |-> targetID]),
                   !.call = <<>>,
                   !.cmd = Ran("RecordRSLEntryForReferenceAtTarget", 0, "", "")]

\* a call of Repository.RecordRSLEntryForReferenceAtTarget
RunRecordRSLEntryForReferenceAtTarget ==
    /\ \E name \in {refName, "main", remoteRefName}, targetID \in 1..MaxCommits :
        /\ repo' = RecordRSLEntryForReferenceAtTarget(repo, name, targetID)
        /\ Len(repo'.rsl) <= MaxEntries
    /\ UNCHANGED notRepo

RepositoryNext ==
    \/ AddCommit
    \/ CreateEntry
    \/ SetDevMode
    \/ RunVerifyRef
    \/ RunRecordRSLEntryForReferenceAtTarget

RepositorySpec == Init /\ [][RepositoryNext]_vars

(* ====================================================================== *)
(*                          recording in the RSL                          *)
(* ====================================================================== *)
\* entries of the RSL
MaxLog == 4

\* the commits a reference may point to
Targets == {"A", "B"}

\* the references of the repository, and the names an operation is given
RecordedRefs == {refName, remoteRefName}
RefArgs == {refName, "main", remoteRefName, unknownRefName}

\* rsl.NewReferenceEntry(refName, targetID) and
\* rsl.NewAnnotationEntry(rslEntryIDs, skip, message)
ReferenceEntry(ref, target) ==
    [kind |-> "reference", ref |-> ref, target |-> target, ids |-> {}, skip |-> FALSE]
AnnotationEntry(ids, skip) ==
    [kind |-> "annotation", ref |-> "", target |-> "", ids |-> ids, skip |-> skip]

\* an entry is skipped when a later annotation that names it says so
IsSkipped(rsl, i) ==
    \E j \in (i + 1)..Len(rsl) :
        rsl[j].kind = "annotation" /\ rsl[j].skip /\ i \in rsl[j].ids

\* the positions of the unskipped reference entries for a reference
UnskippedEntriesFor(rsl, ref) ==
    {i \in 1..Len(rsl) :
        rsl[i].kind = "reference" /\ rsl[i].ref = ref /\ ~IsSkipped(rsl, i)}

\* rsl.GetLatestUnskippedReferenceEntryForRef(repo, refName): the position
\* of the entry, 0 for rsl.ErrRSLEntryNotFound
GetLatestUnskippedReferenceEntryForRef(rsl, ref) ==
    LET found == UnskippedEntriesFor(rsl, ref)
    IN  IF found = {} THEN 0
        ELSE CHOOSE i \in found : \A j \in found : j <= i

\* the target is looked for in every unskipped entry for the reference
isDuplicateEntry_AnyEntry(l, ref, targetID) ==
    \E i \in UnskippedEntriesFor(l.rsl, ref) : l.rsl[i].target = targetID

\* Repository.isDuplicateEntry(refName, targetID)
isDuplicateEntry(l, ref, targetID) ==
    LET latestUnskippedEntry == GetLatestUnskippedReferenceEntryForRef(l.rsl, ref)
    IN  IF latestUnskippedEntry = 0 THEN FALSE
        ELSE l.rsl[latestUnskippedEntry].target = targetID

\* what an operation on the log returned
Returned(op, name, e) == <<[op |-> op, refName |-> name, err |-> e]>>

\* every variable but rslLog
notLog == <<prog, hist, codec, repo, sync, attestations>>

\* the reference is created at, or moved to, a commit (the state
\* r.r.Reference loads at rsl.go:36)
UpdateRef ==
    /\ \E ref \in RecordedRefs, target \in Targets :
        /\ rslLog.refs[ref] # target
        /\ rslLog' = [rslLog EXCEPT !.refs[ref] = target, !.ret = <<>>]
    /\ UNCHANGED notLog

\* Repository.RecordRSLEntryForReference(refName, signCommit), run by
\* `gittuf rsl record` (record.go:30) once signing is known to be viable
\* (record.go:39)
RecordRSLEntryForReference ==
    /\ \E name \in RefArgs :
        LET absRefName == AbsoluteReference(name)
            hash == IF absRefName \in RecordedRefs THEN rslLog.refs[absRefName] ELSE ""
            op == "RecordRSLEntryForReference"
        IN  IF hash = ""
            THEN rslLog' = [rslLog EXCEPT !.ret = Returned(op, name, ErrReferenceNotFound)]
            ELSE IF isDuplicateEntry(rslLog, absRefName, hash)
            THEN rslLog' = [rslLog EXCEPT !.ret = Returned(op, name, "")]
            ELSE /\ Len(rslLog.rsl) < MaxLog
                 /\ rslLog' = [rslLog EXCEPT
                        !.rsl = Append(@, ReferenceEntry(absRefName, hash)),
                        !.ret = Returned(op, name, "")]
    /\ UNCHANGED notLog

\* Repository.RecordRSLAnnotation(rslEntryIDs, skip, message, signCommit):
\* the annotation is committed when the entry it names is in the RSL
RecordRSLAnnotation ==
    /\ Len(rslLog.rsl) < MaxLog
    /\ \E id \in 1..(Len(rslLog.rsl) + 1), skip \in BOOLEAN :
        LET op == "RecordRSLAnnotation"
        IN  IF id > Len(rslLog.rsl) \/ rslLog.rsl[id].kind # "reference"
            THEN rslLog' = [rslLog EXCEPT !.ret = Returned(op, "", ErrRSLEntryNotFound)]
            ELSE rslLog' = [rslLog EXCEPT
                    !.rsl = Append(@, AnnotationEntry({id}, skip)),
                    !.ret = Returned(op, "", "")]
    /\ UNCHANGED notLog

RSLNext ==
    \/ UpdateRef
    \/ RecordRSLEntryForReference
    \/ RecordRSLAnnotation

RSLSpec == Init /\ [][RSLNext]_vars

(* ====================================================================== *)
(*                  the local RSL and the RSL of a remote                 *)
(* ====================================================================== *)
\* entries in the history of an RSL
MaxHistory == 3

\* a commit of the RSL is named by its history, oldest entry first, "l" an
\* entry made in the local repository and "r" one made elsewhere and pushed
\* to the remote; <<>> is the zero hash
ZeroHash == <<>>

\* a is b or an ancestor of b
IsAncestor(a, b) == Len(a) <= Len(b) /\ SubSeq(b, 1, Len(a)) = a

\* gitinterface.KnowsCommit(repo, commitID, commit): the commit under test,
\* commitID, is commit or has commit among its ancestors
KnowsCommit(commitID, commit) == commitID = commit \/ IsAncestor(commit, commitID)

\* the errors of a fetch, "" for nil
ErrEmptyRemoteRepository == "ErrEmptyRemoteRepository"
ErrNoMatchingRefSpec == "ErrNoMatchingRefSpec"

\* gitinterface.FetchRefSpec(ctx, r.r, remoteName, rslRemoteRefSpec): the
\* error, nil when the tracker has been set to the RSL of the remote
FetchRefSpec(s) ==
    IF s.remote # ZeroHash THEN ""
    ELSE IF s.remoteOther THEN ErrNoMatchingRefSpec
    ELSE ErrEmptyRemoteRepository

\* what CheckRemoteRSLForUpdates returns
Updates(hasUpdate, diverged, e) ==
    <<[op |-> "CheckRemoteRSLForUpdates", hasUpdate |-> hasUpdate,
       diverged |-> diverged, err |-> e]>>

\* the two calls of KnowsCommit with the tips the other way round
CheckRemoteRSLForUpdates_TipsSwapped(s) ==
    IF FetchRefSpec(s) = ErrEmptyRemoteRepository THEN Updates(FALSE, FALSE, "")
    ELSE IF FetchRefSpec(s) # "" THEN Updates(FALSE, FALSE, FetchRefSpec(s))
    ELSE IF ~s.hasLocalRef THEN Updates(FALSE, FALSE, ErrReferenceNotFound)
    ELSE IF s.local = ZeroHash THEN Updates(TRUE, FALSE, "")
    ELSE IF s.remote = s.local THEN Updates(FALSE, FALSE, "")
    ELSE IF KnowsCommit(s.local, s.remote) THEN Updates(TRUE, FALSE, "")
    ELSE IF KnowsCommit(s.remote, s.local) THEN Updates(FALSE, FALSE, "")
    ELSE Updates(TRUE, TRUE, "")

\* Repository.CheckRemoteRSLForUpdates(ctx, remoteName)
CheckRemoteRSLForUpdates(s) ==
    IF FetchRefSpec(s) = ErrEmptyRemoteRepository THEN Updates(FALSE, FALSE, "")
    ELSE IF FetchRefSpec(s) # "" THEN Updates(FALSE, FALSE, FetchRefSpec(s))
    ELSE IF ~s.hasLocalRef THEN Updates(FALSE, FALSE, ErrReferenceNotFound)
    ELSE IF s.local = ZeroHash THEN Updates(TRUE, FALSE, "")
    ELSE IF s.remote = s.local THEN Updates(FALSE, FALSE, "")
    ELSE IF KnowsCommit(s.remote, s.local) THEN Updates(TRUE, FALSE, "")
    ELSE IF KnowsCommit(s.local, s.remote) THEN Updates(FALSE, FALSE, "")
    ELSE Updates(TRUE, TRUE, "")

\* every variable but sync
notSync == <<prog, hist, codec, repo, rslLog, attestations>>

\* the RSL reference is created in the local repository, at the zero hash
InitializeLocal ==
    /\ ~sync.hasLocalRef
    /\ sync' = [sync EXCEPT !.hasLocalRef = TRUE, !.ret = <<>>]
    /\ UNCHANGED notSync

\* an entry is recorded in the local RSL
RecordLocal ==
    /\ sync.hasLocalRef
    /\ Len(sync.local) < MaxHistory
    /\ sync' = [sync EXCEPT !.local = Append(@, "l"), !.ret = <<>>]
    /\ UNCHANGED notSync

\* the remote receives a reference (remoteOther) or an RSL entry made in
\* another repository
UpdateRemote ==
    /\ \E rslEntry \in BOOLEAN :
        IF rslEntry
        THEN /\ Len(sync.remote) < MaxHistory
             /\ sync' = [sync EXCEPT !.remote = Append(@, "r"), !.ret = <<>>]
        ELSE /\ ~sync.remoteOther
             /\ sync' = [sync EXCEPT !.remoteOther = TRUE, !.ret = <<>>]
    /\ UNCHANGED notSync

\* Repository.PushRSL(ctx, remoteName): fast-forward only
PushRSL ==
    /\ sync.hasLocalRef
    /\ sync.local # ZeroHash
    /\ IF IsAncestor(sync.remote, sync.local)
       THEN sync' = [sync EXCEPT !.remote = sync.local,
                        !.ret = <<[op |-> "PushRSL", hasUpdate |-> FALSE,
                                   diverged |-> FALSE, err |-> ""]>>]
       ELSE sync' = [sync EXCEPT
                        !.ret = <<[op |-> "PushRSL", hasUpdate |-> FALSE,
                                   diverged |-> FALSE, err |-> "ErrPushingRSL"]>>]
    /\ UNCHANGED notSync

\* Repository.PullRSL(ctx, remoteName): fast-forward only
PullRSL ==
    /\ sync.remote # ZeroHash
    /\ IF IsAncestor(sync.local, sync.remote)
       THEN sync' = [sync EXCEPT !.local = sync.remote, !.hasLocalRef = TRUE,
                        !.ret = <<[op |-> "PullRSL", hasUpdate |-> FALSE,
                                   diverged |-> FALSE, err |-> ""]>>]
       ELSE sync' = [sync EXCEPT
                        !.ret = <<[op |-> "PullRSL", hasUpdate |-> FALSE,
                                   diverged |-> FALSE, err |-> "ErrPullingRSL"]>>]
    /\ UNCHANGED notSync

\* a call of Repository.CheckRemoteRSLForUpdates
RunCheckRemoteRSLForUpdates ==
    /\ sync' = [sync EXCEPT !.ret = CheckRemoteRSLForUpdates(sync)]
    /\ UNCHANGED notSync

SyncNext ==
    \/ InitializeLocal
    \/ RecordLocal
    \/ UpdateRemote
    \/ PushRSL
    \/ PullRSL
    \/ RunCheckRemoteRSLForUpdates

SyncSpec == Init /\ [][SyncNext]_vars

(* ====================================================================== *)
(*                   reference authorization attestations                 *)
(* ====================================================================== *)
\* authorizations and approvals tracked at one time
MaxAuthorizations == 1

\* the references, revisions and trees an authorization may name, and the
\* keys an envelope may be signed with
AuthorizedRefs == {"refs/heads/main", "refs/heads/feature"}
RevisionIDs == {"a1", "b2"}
TreeIDs == {"c3", "d4"}
Signers == {"alice", "bob"}

\* the errors of the package; an error is the set of the errors errors.Is
\* finds in it, {} for nil
ErrInvalidAuthorization == "ErrInvalidAuthorization"
ErrAuthorizationNotFound == "ErrAuthorizationNotFound"
ErrInvalidGitHubPullRequestApprovalAttestation == "ErrInvalidGitHubPullRequestApprovalAttestation"
ErrGitHubPullRequestApprovalAttestationNotFound == "ErrGitHubPullRequestApprovalAttestationNotFound"
ErrDecode == "illegal base64 data"

\* the in-toto statement of NewReferenceAuthorization and of
\* NewGitHubPullRequestApprovalAttestation: one subject with a gitTree
\* digest, and the predicate's three fields
Statements ==
    [subject : TreeIDs, targetRef : AuthorizedRefs,
     fromRevisionID : RevisionIDs, targetTreeID : TreeIDs]

\* NewReferenceAuthorization(targetRef, fromRevisionID, targetTreeID)
NewReferenceAuthorization(targetRef, fromRevisionID, targetTreeID) ==
    [subject |-> targetTreeID, targetRef |-> targetRef,
     fromRevisionID |-> fromRevisionID, targetTreeID |-> targetTreeID]

\* a DSSE envelope: the payload, base64 of a statement or not base64 at
\* all, and who signed it
Envelopes ==
    [payload : {<<"b64", st>> : st \in Statements} \cup {<<"!">>}, sig : Signers]

\* the envelopes an operation is given for a change: one made for it, one
\* whose statement differs from it in one field, or one that does not decode
EnvelopesFor(ref, fromRevisionID, targetTreeID) ==
    LET made == NewReferenceAuthorization(ref, fromRevisionID, targetTreeID)
    IN  {env \in Envelopes :
            \/ env.payload[1] # "b64"
            \/ Cardinality({f \in DOMAIN made : env.payload[2][f] # made[f]}) <= 1}

\* json.Marshal(env) and json.Unmarshal(envBytes, env)
Marshal(env) == <<"{", env.payload, env.sig, "}">>
Unmarshal(envBytes) == [payload |-> envBytes[2], sig |-> envBytes[3]]

\* gitinterface.WriteBlob(repo, contents) and gitinterface.ReadBlob(repo,
\* blobID): the object store keeps every blob written, under the hash of
\* its contents
WriteBlob(contents) == <<"blob", contents>>
ReadBlob(blobID) == blobID[2]

\* delete(m, k) on a Go map
MapDelete(m, k) == [r \in DOMAIN m \ {k} |-> m[r]]

\* the path leaves out the revision the change starts from
ReferenceAuthorizationPath_NoFrom(ref, fromID, toID) == ref \o "/" \o toID

\* ReferenceAuthorizationPath(ref, fromID, toID)
ReferenceAuthorizationPath(ref, fromID, toID) ==
    ref \o "/" \o fromID \o "-" \o toID

\* GitHubPullRequestApprovalAttestationPath(ref, fromID, toID)
GitHubPullRequestApprovalAttestationPath(ref, fromID, toID) ==
    ReferenceAuthorizationPath(ref, fromID, toID)

\* the revision the change starts from is not compared
validateReferenceAuthorization_FromUnchecked(env, targetRef, fromRevisionID, targetTreeID) ==
    IF env.payload[1] # "b64" THEN {ErrDecode}
    ELSE LET attestation == env.payload[2]
         IN  IF attestation.subject # targetTreeID THEN {ErrInvalidAuthorization}
             ELSE IF attestation.targetTreeID # targetTreeID THEN {ErrInvalidAuthorization}
             ELSE IF attestation.targetRef # targetRef THEN {ErrInvalidAuthorization}
             ELSE {}

\* validateReferenceAuthorization(env, targetRef, fromRevisionID, targetTreeID)
validateReferenceAuthorization(env, targetRef, fromRevisionID, targetTreeID) ==
    IF env.payload[1] # "b64" THEN {ErrDecode}
    ELSE LET attestation == env.payload[2]
         IN  IF attestation.subject # targetTreeID THEN {ErrInvalidAuthorization}
             ELSE IF attestation.targetTreeID # targetTreeID THEN {ErrInvalidAuthorization}
             ELSE IF attestation.fromRevisionID # fromRevisionID THEN {ErrInvalidAuthorization}
             ELSE IF attestation.targetRef # targetRef THEN {ErrInvalidAuthorization}
             ELSE {}

\* validateGitHubPullRequestApprovalAttestation(env, targetRef,
\* fromRevisionID, targetTreeID)
validateGitHubPullRequestApprovalAttestation(env, targetRef, fromRevisionID, targetTreeID) ==
    validateReferenceAuthorization(env, targetRef, fromRevisionID, targetTreeID)

\* what an operation leaves and returns: the attestations, the envelope (in
\* a sequence, empty for nil) and the error
Outcome(a, env, e) == [a |-> a, env |-> env, err |-> e]

\* Attestations.SetReferenceAuthorization(repo, env, refName,
\* fromRevisionID, targetTreeID)
SetReferenceAuthorization(a, env, ref, fromRevisionID, targetTreeID) ==
    LET e == validateReferenceAuthorization(env, ref, fromRevisionID, targetTreeID)
        blobID == WriteBlob(Marshal(env))
    IN  IF e # {} THEN Outcome(a, <<>>, e)
        ELSE Outcome([a EXCEPT !.referenceAuthorizations =
                        MapSet(@, ReferenceAuthorizationPath(ref, fromRevisionID, targetTreeID), blobID)],
                     <<>>, {})

\* Attestations.RemoveReferenceAuthorization(refName, fromRevisionID,
\* targetTreeID)
RemoveReferenceAuthorization(a, ref, fromRevisionID, targetTreeID) ==
    LET authPath == ReferenceAuthorizationPath(ref, fromRevisionID, targetTreeID)
    IN  IF authPath \notin DOMAIN a.referenceAuthorizations
        THEN Outcome(a, <<>>, {ErrAuthorizationNotFound})
        ELSE Outcome([a EXCEPT !.referenceAuthorizations = MapDelete(@, authPath)], <<>>, {})

\* Attestations.GetReferenceAuthorizationFor(repo, refName, fromRevisionID,
\* targetTreeID)
GetReferenceAuthorizationFor(a, ref, fromRevisionID, targetTreeID) ==
    LET authPath == ReferenceAuthorizationPath(ref, fromRevisionID, targetTreeID)
    IN  IF authPath \notin DOMAIN a.referenceAuthorizations
        THEN Outcome(a, <<>>, {ErrAuthorizationNotFound})
        ELSE LET env == Unmarshal(ReadBlob(a.referenceAuthorizations[authPath]))
                 e == validateReferenceAuthorization(env, ref, fromRevisionID, targetTreeID)
             IN  IF e # {} THEN Outcome(a, <<>>, e) ELSE Outcome(a, <<env>>, {})

\* Attestations.SetGitHubPullRequestApprovalAttestation(repo, env, refName,
\* fromRevisionID, targetTreeID)
SetGitHubPullRequestApprovalAttestation(a, env, ref, fromRevisionID, targetTreeID) ==
    LET e == validateGitHubPullRequestApprovalAttestation(env, ref, fromRevisionID, targetTreeID)
        blobID == WriteBlob(Marshal(env))
    IN  IF e # {}
        THEN Outcome(a, <<>>, {ErrInvalidGitHubPullRequestApprovalAttestation} \cup e)
        ELSE Outcome([a EXCEPT !.githubPullRequestApprovalAttestations =
                        MapSet(@, GitHubPullRequestApprovalAttestationPath(ref, fromRevisionID, targetTreeID), blobID)],
                     <<>>, {})

\* Attestations.GetGitHubPullRequestApprovalAttestationFor(repo, refName,
\* fromRevisionID, targetTreeID)
GetGitHubPullRequestApprovalAttestationFor(a, ref, fromRevisionID, targetTreeID) ==
    LET attPath == GitHubPullRequestApprovalAttestationPath(ref, fromRevisionID, targetTreeID)
    IN  IF attPath \notin DOMAIN a.githubPullRequestApprovalAttestations
        THEN Outcome(a, <<>>, {ErrGitHubPullRequestApprovalAttestationNotFound})
        ELSE Outcome(a, <<Unmarshal(ReadBlob(a.githubPullRequestApprovalAttestations[attPath]))>>, {})

\* every variable but attestations
notAttestations == <<prog, hist, codec, repo, rslLog, sync>>

\* the attestations tracked
Tracked(a) ==
    Cardinality(DOMAIN a.referenceAuthorizations)
        + Cardinality(DOMAIN a.githubPullRequestApprovalAttestations)

\* the operation has been applied: the attestations it leaves, and in ret
\* what it was and what it returned
Applied(op, out) ==
    /\ Tracked(out.a) <= MaxAuthorizations
    /\ attestations' = [out.a EXCEPT !.ret = <<[op |-> op, env |-> out.env, err |-> out.err]>>]
    /\ UNCHANGED notAttestations

RunSetReferenceAuthorization ==
    \E ref \in AuthorizedRefs, fromRevisionID \in RevisionIDs, targetTreeID \in TreeIDs :
      \E env \in EnvelopesFor(ref, fromRevisionID, targetTreeID) :
        Applied("SetReferenceAuthorization",
                SetReferenceAuthorization(attestations, env, ref, fromRevisionID, targetTreeID))

RunRemoveReferenceAuthorization ==
    \E ref \in AuthorizedRefs, fromRevisionID \in RevisionIDs, targetTreeID \in TreeIDs :
        Applied("RemoveReferenceAuthorization",
                RemoveReferenceAuthorization(attestations, ref, fromRevisionID, targetTreeID))

RunGetReferenceAuthorizationFor ==
    \E ref \in AuthorizedRefs, fromRevisionID \in RevisionIDs, targetTreeID \in TreeIDs :
        Applied("GetReferenceAuthorizationFor",
                GetReferenceAuthorizationFor(attestations, ref, fromRevisionID, targetTreeID))

RunSetGitHubPullRequestApprovalAttestation ==
    \E ref \in AuthorizedRefs, fromRevisionID \in RevisionIDs, targetTreeID \in TreeIDs :
      \E env \in EnvelopesFor(ref, fromRevisionID, targetTreeID) :
        Applied("SetGitHubPullRequestApprovalAttestation",
                SetGitHubPullRequestApprovalAttestation(attestations, env, ref, fromRevisionID, targetTreeID))

RunGetGitHubPullRequestApprovalAttestationFor ==
    \E ref \in AuthorizedRefs, fromRevisionID \in RevisionIDs, targetTreeID \in TreeIDs :
        Applied("GetGitHubPullRequestApprovalAttestationFor",
                GetGitHubPullRequestApprovalAttestationFor(attestations, ref, fromRevisionID, targetTreeID))

AttestationsNext ==
    \/ RunSetReferenceAuthorization
    \/ RunRemoveReferenceAuthorization
    \/ RunGetReferenceAuthorizationFor
    \/ RunSetGitHubPullRequestApprovalAttestation
    \/ RunGetGitHubPullRequestApprovalAttestationFor

AttestationsSpec == Init /\ [][AttestationsNext]_vars

(* ====================================================================== *)
(*                               properties                               *)
(* ====================================================================== *)
Last(s) == s[Len(s)]

\* the remote is gittuf-enabled
GittufEnabled == DOMAIN gittufRefsTips # {}

\* the reference is under refs/gittuf/
UnderGittuf(ref) == ref # <<>> /\ Head(ref) = "refs/gittuf/"

\* a token of the form `push <src>:<dst>\n`, and its two references
IsPushLine(tok) == Len(tok) >= 2 /\ tok[1] = "push" /\ tok[2] = SP
ColonAt(tok) == CHOOSE i \in 1..Len(tok) : tok[i] = COLON
SrcOf(tok) == SubSeq(tok, 3, ColonAt(tok) - 1)
DstOf(tok) == SubSeq(tok, ColonAt(tok) + 1, Len(tok) - 1)

\* the exchange in progress is a push batch
InPushBatch == state0 = start /\ fromCtl # <<>> /\ IsPushLine(fromCtl[1])

\* the blank line of the batch has been scanned and the range loop entered
BatchTerminated ==
    InPushBatch /\ Last(fromCtl) = blankLine /\ pc \notin {"alreadyScanned", "pushLoop"}

\* the push commands of the buffer the range loop has dealt with: forwarded,
\* or refused by a failed record
BatchReached ==
    IF ~BatchTerminated THEN 0
    ELSE IF pc = "pushFlush" THEN idx - 1
    ELSE IF err = "rsl record" THEN idx
    ELSE Len(pushCommands)

\* C1: every push command written to the child whose destination is not
\* under refs/gittuf/, on a gittuf-enabled remote, was preceded by a
\* successful `gittuf rsl record --dst-ref <dst> <src>` for that command,
\* completed after the previous write and before the push line was written
C1_RecordBeforePush ==
    \A j \in 1..Len(toChild) :
        (/\ InPushBatch
         /\ IsPushLine(toChild[j])
         /\ ~UnderGittuf(DstOf(toChild[j]))
         /\ GittufEnabled)
        => \E r \in 1..Len(rslRuns) :
              /\ rslRuns[r].ok
              /\ rslRuns[r].dst = DstOf(toChild[j])
              /\ rslRuns[r].src = SrcOf(toChild[j])
              /\ rslRuns[r].at = j - 1

\* a user push has reached the child of a gittuf-enabled remote
C1_Witness ==
    /\ InPushBatch
    /\ GittufEnabled
    /\ pc = "rdReport"
    /\ \E j \in 1..Len(toChild) : toChild[j] = cmdPushMain

\* the (dst, src) pairs `gittuf rsl record` must have been run for, given
\* the buffered push commands the range loop has dealt with
RECURSIVE DueRecords(_)
DueRecords(cmds) ==
    IF cmds = <<>> THEN <<>>
    ELSE (IF GittufEnabled /\ ~UnderGittuf(DstOf(Head(cmds)))
          THEN <<[dst |-> DstOf(Head(cmds)), src |-> SrcOf(Head(cmds))]>>
          ELSE <<>>) \o DueRecords(Tail(cmds))

\* C2: `gittuf rsl record` has been run for a buffered push command the
\* range loop has dealt with if and only if the remote is gittuf-enabled and
\* the destination is not under refs/gittuf/; and no record is ever run when
\* the child never sent a token naming refs/gittuf/
C2_RecordIffEnabledAndUserRef ==
    /\ [r \in 1..Len(rslRuns) |-> [dst |-> rslRuns[r].dst, src |-> rslRuns[r].src]]
          = DueRecords(SubSeq(pushCommands, 1, BatchReached))
    /\ (~advertised => rslRuns = <<>>)

\* a batch with a user ref and a gittuf ref on a gittuf-enabled remote: one
\* record run for the two commands
C2_Witness ==
    /\ BatchTerminated
    /\ pc = "rdReport"
    /\ GittufEnabled
    /\ pushCommands = <<cmdPushPolicy, cmdPushMain>>
    /\ Len(rslRuns) = 1

\* the line that pushes the RSL
RSLPush ==
    <<"push", SP, "refs/gittuf/", "reference-state-log", COLON,
      "refs/gittuf/", "reference-state-log", NL>>

\* C3: once the blank line has ended a batch and every record has succeeded,
\* the child has been written the buffered push commands in order, then the
\* RSL push line exactly when the remote is gittuf-enabled, then one blank
\* line, and nothing else; while the range loop runs it has been written the
\* commands dealt with and nothing else
C3_BatchBytes ==
    BatchTerminated /\ err # "rsl record" =>
        IF pc = "pushFlush"
        THEN toChild = SubSeq(pushCommands, 1, idx - 1)
        ELSE toChild = pushCommands
                        \o (IF GittufEnabled THEN <<RSLPush>> ELSE <<>>)
                        \o <<blankLine>>

\* a batch of two commands forwarded to a gittuf-enabled remote
C3_Witness ==
    /\ BatchTerminated
    /\ pc = "rdReport"
    /\ GittufEnabled
    /\ Len(pushCommands) = 2
    /\ Len(toChild) = 4

NamesGittuf(tok) == \E i \in 1..Len(tok) : tok[i] = "refs/gittuf/"
NotNamingGittuf(tok) == ~NamesGittuf(tok)

\* C4: of the push report, the controller has been written the tokens that
\* do not contain refs/gittuf/, unchanged and in order, and no other; the
\* first flush-pkt is the last token read, and it is written
C4_ReportFiltered ==
    reader = "report" =>
        /\ toCtl = SelectSeq(fromChild, NotNamingGittuf)
        /\ \A i \in 1..(Len(fromChild) - 1) : fromChild[i] # flushPkt
        /\ (pc = "rdReport" => Last(fromChild) # flushPkt)
        /\ (Last(fromChild) = flushPkt => Last(toCtl) = flushPkt)

\* the report names a user ref and the RSL, then ends
C4_Witness ==
    /\ reader = "report"
    /\ fromChild = <<okMain, okRSL, flushPkt>>
    /\ toCtl = <<okMain, flushPkt>>

(* ------------------------- service exchanges -------------------------- *)
Names(tok, sym) == \E i \in 1..Len(tok) : tok[i] = sym

\* the exchange in progress is an ls-refs, or a fetch, of git-upload-pack
InLsRefsExchange ==
    /\ state0 = serviceRouter
    /\ service = <<"git-upload-pack">>
    /\ fromCtl # <<>>
    /\ Names(fromCtl[1], "command=ls-refs")
InFetchExchange ==
    /\ state0 = serviceRouter
    /\ service = <<"git-upload-pack">>
    /\ fromCtl # <<>>
    /\ ~Names(fromCtl[1], "command=ls-refs")
    /\ Names(fromCtl[1], "command=fetch")

\* the controller tokens of the exchange that have been dealt with
Handled ==
    SubSeq(fromCtl, 1, IF pc = "alreadyScanned" THEN Len(fromCtl) - 1 ELSE Len(fromCtl))

\* C5: in an ls-refs exchange the child is written the controller's packets
\* unchanged and in order, and one more packet, of payload
\* `ref-prefix refs/gittuf/\n`, written right before the flush-pkt that ends
\* the arguments
C5_RefPrefixBeforeFlush ==
    InLsRefsExchange =>
        LET n == Len(Handled)
        IN  IF n >= 2 /\ Handled[n] = flushPkt
            THEN /\ Len(toChild) = n + 1
                 /\ SubSeq(toChild, 1, n - 1) = SubSeq(fromCtl, 1, n - 1)
                 /\ Tail(toChild[n]) = <<"ref-prefix", SP, "refs/gittuf/", NL>>
                 /\ toChild[n + 1] = flushPkt
                 /\ \A i \in 1..(n - 1) :
                        /\ fromCtl[i] # flushPkt
                        /\ Tail(fromCtl[i]) # <<"ref-prefix", SP, "refs/gittuf/", NL>>
            ELSE toChild = Handled

\* the arguments of an ls-refs have been ended and the response is awaited
C5_Witness ==
    /\ InLsRefsExchange
    /\ pc = "rdLsRefs"
    /\ fromCtl = <<pktLsRefs, delimiterPkt, flushPkt>>

\* the payloads of the wants the helper owes the child
WantPayloads ==
    {<<"want", SP>> \o gittufRefsTips[r] \o <<NL>> : r \in DOMAIN gittufRefsTips}

\* does `child` consist of the tokens of `ctl`, with one want per entry of the
\* map right before each flush-pkt
RECURSIVE WantsBeforeEachFlush(_, _)
WantsBeforeEachFlush(ctl, child) ==
    LET k == Cardinality(DOMAIN gittufRefsTips)
    IN  IF ctl = <<>> THEN child = <<>>
        ELSE IF Head(ctl) = flushPkt
        THEN /\ Len(child) >= k + 1
             /\ {Tail(child[i]) : i \in 1..k} = WantPayloads
             /\ child[k + 1] = flushPkt
             /\ WantsBeforeEachFlush(Tail(ctl), SubSeq(child, k + 2, Len(child)))
        ELSE /\ child # <<>>
             /\ Head(child) = Head(ctl)
             /\ WantsBeforeEachFlush(Tail(ctl), Tail(child))

\* C6: in a fetch the child is written the controller's packets unchanged and
\* in order, and right before each flush-pkt of the controller one packet
\* `want <oid>\n` for every entry of gittufRefsTips, and nothing else
C6_WantsBeforeFlush ==
    InFetchExchange => WantsBeforeEachFlush(Handled, toChild)

\* a wants batch on a remote with two gittuf refs: two wants are added
C6_Witness ==
    /\ InFetchExchange
    /\ pc = "rdPack"
    /\ Cardinality(DOMAIN gittufRefsTips) = 2
    /\ fromCtl = <<pktFetch, pktWant, flushPkt>>
    /\ Len(toChild) = 5

IsGittufWant(tok) == tok # <<>> /\ Tail(tok) \in WantPayloads
NotGittufWant(tok) == ~IsGittufWant(tok)
IsFlush(tok) == tok = flushPkt

\* C7: over the rounds of a fetch every controller token, the one scanned
\* after a response-end-pkt included, is written to the child once and in
\* order; the helper is back in requestingWants with that token when it is
\* dispatched; and the gittuf wants have been written once for each
\* flush-pkt of the controller
C7_WantsEveryRound ==
    InFetchExchange =>
        /\ SelectSeq(toChild, NotGittufWant) = Handled
        /\ Len(SelectSeq(toChild, IsGittufWant))
              = Cardinality(DOMAIN gittufRefsTips) * Len(SelectSeq(Handled, IsFlush))
        /\ (pc = "alreadyScanned" =>
               /\ command = Last(fromCtl)
               /\ (fromChild # <<>> /\ Last(fromChild) = endOfReadPkt
                      => currentState = requestingWants))

\* a second wants batch, begun by a want, has been ended on a gittuf remote
C7_Witness ==
    /\ InFetchExchange
    /\ pc = "rdPack"
    /\ GittufEnabled
    /\ fromCtl = <<pktFetch, flushPkt, pktWant, flushPkt>>
    /\ fromChild # <<>>
    /\ Last(fromChild) = endOfReadPkt

\* the advertisement a packet of the ls-refs response carries: its payload
\* up to a NUL, as fields
AdFields(pkt) ==
    LET payload == Tail(pkt)
        cut == IF Names(payload, NUL)
               THEN SubSeq(payload, 1, IndexByte(payload, NUL))
               ELSE payload
    IN  Split(TrimSpace(cut), SP)
IsGittufAd(pkt) ==
    /\ pkt \notin {flushPkt, endOfReadPkt, delimiterPkt}
    /\ Len(AdFields(pkt)) >= 2
    /\ UnderGittuf(AdFields(pkt)[2])

\* the map after the advertisements of `pkts`
RECURSIVE TipsAfter(_, _)
TipsAfter(tips, pkts) ==
    IF pkts = <<>> THEN tips
    ELSE TipsAfter(IF IsGittufAd(Head(pkts))
                   THEN MapSet(tips, AdFields(Head(pkts))[2], AdFields(Head(pkts))[1])
                   ELSE tips,
                   Tail(pkts))

\* C8: every packet of the ls-refs response, whatever its payload, is
\* written to the controller unchanged and in order up to and including the
\* response-end-pkt, after which the state is serviceRouter; and the map
\* holds the advertised refs under refs/gittuf/, and no other
C8_LsRefsResponseCopied ==
    reader = "lsRefs" =>
        /\ toCtl = fromChild
        /\ (Last(fromChild) = endOfReadPkt => currentState = serviceRouter)
        /\ gittufRefsTips = TipsAfter(tips0, fromChild)

\* the exchange in progress is a command of state start that is none of
\* stateless-connect, list for-push and push
InOtherExchange ==
    /\ state0 = start
    /\ fromCtl # <<>>
    /\ Head(fromCtl[1]) \notin {"stateless-connect", "push"}
    /\ ~(Len(fromCtl[1]) >= 3 /\ SubSeq(fromCtl[1], 1, 3) = <<"list", SP, "for-push">>)

\* C9: for such a command the child is written the command and nothing else,
\* the controller is written the child's tokens in order up to and including
\* the first flush-pkt, where reading stops, and the state stays start with
\* gittufRefsTips and isPush as they were
C9_PassThrough ==
    InOtherExchange /\ pc # "alreadyScanned" =>
        /\ toChild = fromCtl
        /\ Len(fromCtl) = 1
        /\ toCtl = fromChild
        /\ \A i \in 1..(Len(fromChild) - 1) : fromChild[i] # flushPkt
        /\ (pc = "rdOther" /\ fromChild # <<>> => Last(fromChild) # flushPkt)
        /\ currentState = start
        /\ gittufRefsTips = tips0
        /\ isPush = isPush0

\* `capabilities` answered after a push to a gittuf-enabled remote
C9_Witness ==
    /\ InOtherExchange
    /\ pc = "scan"
    /\ fromCtl = <<cmdCapabilities>>
    /\ fromChild = <<capLine, flushPkt>>
    /\ GittufEnabled
    /\ isPush

\* is this token of the child one the helper may keep from the controller
Suppressed(tok) == reader = "report" /\ NamesGittuf(tok)
NotSuppressed(tok) == ~Suppressed(tok)

\* C10: the controller has been written the tokens scanned from the child,
\* in order, except the tokens of a push report that contain refs/gittuf/
C10_ControllerSeesChildOutput ==
    toCtl = SelectSeq(fromChild, NotSuppressed)

(* ------------------------- C11: release on exit ----------------------- *)
\* every call the shutdown of curl.go:375-387 makes, in its order
Released == <<"stdin", "stdout", "wait">>

\* C11: on every path by which handleCurl returns, an error path included
\* (a failed `gittuf rsl record`, a failed write), the child has been
\* released by then: its stdin closed, then its stdout closed, then the
\* child waited on.
C11_ChildReleasedOnEveryExit == pc = "returned" => closed = Released

\* the same, for the return of curl.go:156 alone
C11_ReleasedAfterFailedRecord == err = "rsl record" => closed = Released

(* --------------------------- C12: the shutdown ------------------------ *)
\* the main loop has ended without an error: the controller's input ended,
\* or the fetch reached packfileDone
LoopEnded == ctlEOF \/ currentState = packfileDone

\* C12: the shutdown begins only when the main loop has ended without an
\* error; it closes the child's stdin, then its stdout, then waits on the
\* child, in that order; handleCurl returns (gittufRefsTips, isPush) only
\* after all three; and a failed Wait is returned as the error, with a nil
\* map and isPush false.
C12_ShutdownOrder ==
    /\ \E n \in 0..Len(Released) : closed = SubSeq(Released, 1, n)
    /\ closed # <<>> => LoopEnded
    /\ pc = "returned" /\ err = "" =>
            /\ closed = Released
            /\ ret = [nilMap |-> FALSE, tips |-> gittufRefsTips, isPush |-> isPush]
    /\ err = "wait" =>
            /\ pc = "returned"
            /\ closed = Released
            /\ ret = [nilMap |-> TRUE, tips |-> EmptyMap, isPush |-> FALSE]

\* handleCurl has returned the tips of a gittuf-enabled remote after a push
C12_Witness ==
    /\ pc = "returned"
    /\ err = ""
    /\ closed = Released
    /\ isPush
    /\ GittufEnabled

\* handleCurl has returned the error of Wait
C12_WaitFailed == pc = "returned" /\ err = "wait" /\ isPush

(* ------------------------ C13: a failed record ------------------------ *)
\* C13: when `gittuf rsl record` exits non-zero for a buffered push command,
\* handleCurl returns that error: the child has been written the commands
\* before it and nothing else (not that command, not a later one, not the
\* RSL push line, not the blank line), and no token of a push report has
\* been read.
C13_FailedRecordStopsBatch ==
    \A r \in 1..Len(rslRuns) :
        ~rslRuns[r].ok =>
            /\ r = Len(rslRuns)
            /\ pc = "returned"
            /\ err = "rsl record"
            /\ ret = [nilMap |-> TRUE, tips |-> EmptyMap, isPush |-> FALSE]
            /\ idx \in 1..Len(pushCommands)
            /\ DstOf(pushCommands[idx]) = rslRuns[r].dst
            /\ toChild = SubSeq(pushCommands, 1, idx - 1)
            /\ Len(toChild) = rslRuns[r].at
            /\ fromChild = <<>>
            /\ toCtl = <<>>

\* the record failed for the second command of a batch
C13_Witness ==
    /\ err = "rsl record"
    /\ idx = 2
    /\ Len(toChild) = 1
    /\ Len(pushCommands) = 2

(* --------------------------- C14: packet mode ------------------------- *)
\* C14: every token of the controller dispatched after `stateless-connect`
\* has been handled, the first one included, was scanned in packet mode
\* (scanning and dispatching leave isPacketMode as it is, so at the dispatch
\* it has the value the token was scanned under).
C14_PacketModeAfterConnect ==
    pc = "alreadyScanned" /\ currentState # start => isPacketMode

\* packet mode is never switched off
C14_PacketModeStays == [][isPacketMode => isPacketMode']_vars

\* from the second token after `stateless-connect` on, packet mode is on
C14_PacketModeFromSecondToken ==
    pc = "alreadyScanned" /\ currentState \notin {start, serviceRouter} => isPacketMode

(* ------------------------ C15: the length prefix ---------------------- *)
\* n in lowercase hexadecimal, w digits wide
RECURSIVE HexOfWidth(_, _)
HexOfWidth(n, w) ==
    IF w = 0 THEN "" ELSE HexOfWidth(n \div 16, w - 1) \o HexDigits[(n % 16) + 1]

\* a pkt-line: four lowercase hex digits giving the length of the payload
\* plus four, then the payload
WellFramed(tok) ==
    /\ tok # <<>>
    /\ Len(Head(tok)) = 4
    /\ Head(tok) = HexOfWidth(ByteLen(Tail(tok)) + 4, 4)

\* the packets the helper has added to the controller's: the ref-prefix of
\* an ls-refs, and what precedes a flush-pkt of a fetch beyond the
\* controller's own packets
Injected ==
    IF InLsRefsExchange
    THEN {t \in 1..Len(toChild) : ~\E c \in 1..Len(fromCtl) : fromCtl[c] = toChild[t]}
    ELSE IF InFetchExchange /\ GittufEnabled
    THEN {t \in 1..Len(toChild) : toChild[t] \notin {pktFetch, pktWant, flushPkt, delimiterPkt}}
    ELSE {}

\* C15: every packet the helper constructs and injects (the ref-prefix
\* packet of an ls-refs, each want of a fetch) begins with four lowercase
\* hex digits whose value is the length of its payload plus four.
C15_InjectedLengthPrefix ==
    /\ \A t \in Injected : WellFramed(toChild[t])
    /\ InLsRefsExchange /\ flushPkt \in {Handled[c] : c \in 1..Len(Handled)} =>
            Injected # {}
    /\ InFetchExchange /\ flushPkt \in {Handled[c] : c \in 1..Len(Handled)} =>
            Cardinality(Injected) >= Cardinality(DOMAIN gittufRefsTips)

\* a fetch in which `want deadbeef\n` (14 bytes) went out under 0012 and
\* `want f00d\n` (10 bytes) under 000e
C15_Witness ==
    /\ InFetchExchange
    /\ \E t \in Injected : toChild[t] = <<"0012", "want", SP, "deadbeef", NL>>
    /\ \E t \in Injected : toChild[t] = <<"000e", "want", SP, "f00d", NL>>

(* ----------------------- C16: framing round trip ---------------------- *)
RECURSIVE Concat(_)
Concat(seqs) == IF seqs = <<>> THEN <<>> ELSE Head(seqs) \o Concat(Tail(seqs))

\* a frame of a payload, not a sentinel
IsPayloadFrame(f) == f \notin {<<"0", "0", "0", "0">>, <<"0", "0", "0", "1">>, <<"0", "0", "0", "2">>}

\* C16: on a stream that is a concatenation of valid pkt-lines the splitter
\* never fails; the frames it has emitted, followed by the bytes still to
\* be split, are the bytes written; when it has reached the end of the
\* stream the concatenation of its frames is the stream; a stream that is
\* the frame of one payload is split into that one frame; and the length
\* field of the frame of every payload of up to 0xFFFB bytes reads back as
\* the length of the payload plus four.
C16_FramingRoundTrip ==
    /\ ~codec.torn =>
        /\ codec.state # "failed"
        /\ Concat(codec.frames) \o codec.buf \o codec.wire = Concat(codec.sent)
        /\ codec.state = "done" =>
                /\ Concat(codec.frames) = Concat(codec.sent)
                /\ Len(codec.sent) = 1 /\ IsPayloadFrame(codec.sent[1]) =>
                        codec.frames = codec.sent
    /\ codec = NoCodec =>
        \A n \in 0..(MaxPktLen - 4) :
            /\ Len(Hex4Bytes(n + 4)) = 4
            /\ HexValue(Hex4Bytes(n + 4)) = n + 4

\* two frames, the second a payload that reads as a flush-pkt, split to the
\* end of the stream
C16_Witness ==
    /\ codec.state = "done"
    /\ ~codec.torn
    /\ Len(codec.frames) = 2
    /\ codec.frames[2] = <<"0", "0", "0", "8", "0", "0", "0", "0">>

(* ----------------------------- C17: VerifyRef ------------------------- *)
\* the reference a call is about, and the one whose RSL entries it reads
CallLocal(c) == IF c.localRef = "main" THEN "refs/heads/main" ELSE c.localRef
CallRemote(c) ==
    IF c.remoteRef = "" THEN CallLocal(c)
    ELSE IF c.remoteRef = "main" THEN "refs/heads/main" ELSE c.remoteRef

\* the target of the last entry of the RSL for a reference, 0 when it has
\* none
RECURSIVE LastTarget(_, _)
LastTarget(log, ref) ==
    IF log = <<>> THEN 0
    ELSE IF Last(log).ref = ref THEN Last(log).target
    ELSE LastTarget(SubSeq(log, 1, Len(log) - 1), ref)

IsUserPushLine(tok) == IsPushLine(tok) /\ tok # RSLPush

\* the blank line of the batch has been dealt with: its commands have been
\* forwarded
BatchForwarded ==
    BatchTerminated /\ pc # "pushFlush" /\ err # "rsl record"

\* C18: when the commands of a push batch have been forwarded at its
\* terminator, the push commands written to the child are the commands the
\* controller sent in that batch, each once and in order, and `gittuf rsl
\* record` has run at most once for each of them.
C18_BatchForwardedOnce ==
    BatchForwarded =>
        /\ SelectSeq(toChild, IsUserPushLine) = SelectSeq(fromCtl, IsPushLine)
        /\ Len(rslRuns) <= Len(SelectSeq(fromCtl, IsPushLine))

\* the same for the first batch of an invocation, whose buffer holds no
\* earlier command
C18_FirstBatchForwardedOnce ==
    BatchForwarded /\ Len(pushCommands) = Len(SelectSeq(fromCtl, IsPushLine)) =>
        /\ SelectSeq(toChild, IsUserPushLine) = SelectSeq(fromCtl, IsPushLine)
        /\ Len(rslRuns) <= Len(SelectSeq(fromCtl, IsPushLine))

(* --------------------------- C19: termination ------------------------- *)
\* C19: once the controller has closed its end of stdin, handleCurl
\* eventually has closed the child's stdin and returned (the child
\* answering every request written to it).
C19_ReturnsAfterEOF == ctlEOF ~> (pc = "returned" /\ closed # <<>>)

\* the helper is in the report loop of a batch of which it has written
\* nothing to the child: the child has no request to answer
AwaitsUnaskedReport ==
    /\ pc = "rdReport"
    /\ toChild = <<>>
    /\ ~childEOF

\* after the controller's end of input the helper never waits for the
\* answer to a request it did not make
C19_NoWaitForUnaskedReport == ctlEOF => ~AwaitsUnaskedReport

(* ------------------------ C20: the state machine ---------------------- *)
\* the states a controller token is dispatched in
DispatchStates == {start, serviceRouter, lsRefs, requestingWants}

\* the changes of state: those the claim lists, the two that pass through
\* the response of the child split at lsRefsResponse and packfileIncoming,
\* states in which no controller token is dispatched
Transitions ==
    {<<start, serviceRouter>>, <<serviceRouter, lsRefs>>,
     <<serviceRouter, requestingWants>>,
     <<lsRefs, lsRefsResponse>>, <<lsRefsResponse, serviceRouter>>,
     <<requestingWants, packfileIncoming>>, <<packfileIncoming, requestingWants>>,
     <<packfileIncoming, packfileDone>>}

\* the main loop has been left
LoopLeft == pc \in {"shutdown", "closeStdOut", "wait", "returned", "panic"}

\* C20: a controller token is dispatched only in start, serviceRouter,
\* lsRefs or requestingWants; the state changes only start->serviceRouter,
\* serviceRouter->lsRefs, serviceRouter->requestingWants, lsRefs->
\* serviceRouter (through the drain of the response), requestingWants->
\* requestingWants (through the packfile) and requestingWants->
\* packfileDone; it never returns to start; and the main loop is left only
\* at packfileDone, at the controller's end of input, or on an error.
C20_StateMachine ==
    [][/\ pc' = "alreadyScanned" => currentState' \in DispatchStates
       /\ currentState' # currentState => <<currentState, currentState'>> \in Transitions
       /\ currentState # start => currentState' # start
       /\ currentState' = lsRefsResponse => pc' \in {"rdLsRefs", "panic"}
       /\ currentState' = packfileIncoming => pc' = "rdPack"
       /\ LoopLeft' =>
            \/ currentState' = packfileDone
            \/ ctlEOF'
            \/ err' # ""
            \/ pc' = "panic"
       /\ currentState' = packfileDone => LoopLeft']_vars

\* a second wants batch of a fetch is dispatched: the state has gone
\* start, serviceRouter, requestingWants, and through the packfile back to
\* requestingWants
C20_Witness ==
    /\ pc = "alreadyScanned"
    /\ currentState = requestingWants
    /\ state0 = serviceRouter
    /\ rounds = 2

(* ------------------------ C21: the service router --------------------- *)
\* a controller packet is being dispatched in state serviceRouter
AtRouter == pc = "alreadyScanned" /\ currentState = serviceRouter

\* C21: the step that handles a controller packet in state serviceRouter
\* writes that packet to the child as it is, reads nothing from the child
\* and writes nothing to the controller; it moves to lsRefs when the
\* service is git-upload-pack and the packet contains `command=ls-refs`,
\* else to requestingWants when the service is git-upload-pack and the
\* packet contains `command=fetch`, and else stays in serviceRouter; the
\* map and the push state are left alone; and in a session of another
\* service the child is written the controller's packets and nothing more.
C21_ServiceRouterFrame ==
    [][/\ AtRouter =>
            /\ toChild' = Append(toChild, command)
            /\ fromChild' = fromChild
            /\ toCtl' = toCtl
            /\ currentState' =
                  IF service = <<"git-upload-pack">> /\ Names(command, "command=ls-refs")
                  THEN lsRefs
                  ELSE IF service = <<"git-upload-pack">> /\ Names(command, "command=fetch")
                  THEN requestingWants
                  ELSE serviceRouter
            /\ UNCHANGED <<gittufRefsTips, pushCommands, isPush, service>>
       /\ state0' = serviceRouter /\ service' # <<"git-upload-pack">> =>
            /\ currentState' = serviceRouter
            /\ toChild' = SubSeq(fromCtl', 1, Len(toChild'))
            /\ Len(toChild') >= Len(fromCtl') - 1]_vars

\* `command=ls-refs` has been routed in a git-receive-pack session
C21_Witness ==
    /\ service = <<"git-receive-pack">>
    /\ state0 = serviceRouter
    /\ currentState = serviceRouter
    /\ pc = "scan"
    /\ fromCtl = <<pktLsRefs>>
    /\ toChild = <<pktLsRefs>>

\* a packet with both keywords has been routed to lsRefs
C21_LsRefsFirst ==
    /\ service = <<"git-upload-pack">>
    /\ currentState = lsRefs
    /\ pc = "scan"
    /\ fromCtl = <<pktFetchLsRefs>>
    /\ toChild = <<pktFetchLsRefs>>

(* -------------------------- C22: list for-push ------------------------ *)
\* the exchange in progress is a `list for-push`
InListExchange ==
    /\ state0 = start
    /\ fromCtl # <<>>
    /\ Len(fromCtl[1]) >= 3
    /\ SubSeq(fromCtl[1], 1, 3) = <<"list", SP, "for-push">>

\* a response line `<oid> SP <refname>` whose refname starts with
\* refs/gittuf/, its oid and its refname
IsGittufListLine(line) ==
    /\ Len(line) >= 4
    /\ ~IsSpace(line[1])
    /\ line[2] = SP
    /\ line[3] = "refs/gittuf/"
ListOid(line) == <<line[1]>>
ListRefName(line) ==
    SubSeq(line, 3, (CHOOSE i \in 3..Len(line) :
                        /\ i = Len(line) \/ IsSpace(line[i + 1])
                        /\ \A j \in 3..i : ~IsSpace(line[j])))

\* the map after the response lines `lines`
RECURSIVE ListTips(_, _)
ListTips(tips, lines) ==
    IF lines = <<>> THEN tips
    ELSE ListTips(IF IsGittufListLine(Head(lines))
                  THEN MapSet(tips, ListRefName(Head(lines)), ListOid(Head(lines)))
                  ELSE tips,
                  Tail(lines))

\* C22: in a `list for-push` the child is written the command as it is and
\* nothing else; the controller is written the child's lines unchanged and
\* in order, reading stops at the first flush-pkt, which is written too;
\* the map is what it was with gittufRefsTips[refname] = oid set for exactly
\* the lines `<oid> SP <refname>` read whose refname starts with
\* refs/gittuf/; the state stays start and isPush is as it was, so the
\* remote is gittuf-enabled afterwards iff it was before or such a line was
\* read.
C22_ListForPush ==
    InListExchange =>
        /\ toChild = (IF pc = "alreadyScanned" THEN <<>> ELSE <<fromCtl[1]>>)
        /\ Len(fromCtl) = 1
        /\ toCtl = fromChild
        /\ \A i \in 1..(Len(fromChild) - 1) : fromChild[i] # flushPkt
        /\ fromChild # <<>> /\ Last(fromChild) = flushPkt => pc # "rdList"
        /\ gittufRefsTips = ListTips(tips0, fromChild)
        /\ GittufEnabled <=>
                \/ DOMAIN tips0 # {}
                \/ \E i \in 1..Len(fromChild) : IsGittufListLine(fromChild[i])
        /\ currentState = start
        /\ isPush = isPush0
        /\ rslRuns = <<>>

\* a list that advertised the RSL and a symbolic reference to a gittuf ref,
\* read to its flush-pkt
C22_Witness ==
    /\ InListExchange
    /\ pc = "scan"
    /\ fromChild = <<lineRSL, lineSymref, flushPkt>>
    /\ DOMAIN gittufRefsTips = {<<"refs/gittuf/", "reference-state-log">>}
    /\ gittufRefsTips[<<"refs/gittuf/", "reference-state-log">>] = <<"deadbeef">>

(* ---------------------- C23: the map and the flag --------------------- *)
\* the helper is reading the response to a `list for-push` or to an ls-refs
ReadingAdvertisement == pc \in {"rdList", "rdLsRefs"}

\* C23: the map starts empty and isPush false; every key of the map starts
\* with refs/gittuf/; a step never removes a key, and changes the map only
\* while the response to `list for-push` or to ls-refs is read; isPush is
\* turned on only by the dispatch of a push command in state start, and
\* never turned off.
C23_TipsAndIsPush ==
    /\ gittufRefsTips = EmptyMap
    /\ ~isPush
    /\ [][/\ \A k \in DOMAIN gittufRefsTips' : UnderGittuf(k)
          /\ DOMAIN gittufRefsTips \subseteq DOMAIN gittufRefsTips'
          /\ gittufRefsTips' # gittufRefsTips => ReadingAdvertisement
          /\ isPush => isPush'
          /\ isPush' /\ ~isPush =>
                /\ pc = "alreadyScanned"
                /\ currentState = start
                /\ IsPushLine(command)]_vars

\* an entry of the map has been overwritten by a later advertisement, and a
\* push has been handled
C23_Witness ==
    /\ isPush
    /\ DOMAIN gittufRefsTips = {<<"refs/gittuf/", "policy">>}
    /\ DOMAIN tips0 = {<<"refs/gittuf/", "policy">>}
    /\ tips0[<<"refs/gittuf/", "policy">>] = <<"f00d">>
    /\ gittufRefsTips[<<"refs/gittuf/", "policy">>] = <<"beef">>

(* ------------------- C24: RecordRSLEntryForReference ------------------ *)
\* the reference entries for a reference that no later annotation skips,
\* oldest first
RECURSIVE UnskippedTargets(_, _, _)
UnskippedTargets(rsl, ref, i) ==
    IF i > Len(rsl) THEN <<>>
    ELSE IF /\ rsl[i].kind = "reference"
            /\ rsl[i].ref = ref
            /\ \A j \in (i + 1)..Len(rsl) : ~(rsl[j].skip /\ i \in rsl[j].ids)
         THEN <<rsl[i].target>> \o UnskippedTargets(rsl, ref, i + 1)
         ELSE UnskippedTargets(rsl, ref, i + 1)

\* the last step was a run of RecordRSLEntryForReference
Recorded(l) == l.ret # <<>> /\ l.ret[1].op = "RecordRSLEntryForReference"

\* the reference a run was about
RecordedRef(l) == IF l.ret[1].refName = "main" THEN "refs/heads/main" ELSE l.ret[1].refName

Checked == sync.ret # <<>> /\ sync.ret[1].op = "CheckRemoteRSLForUpdates"

\* the history a is that of b with more entries after it
StrictlyAhead(a, b) ==
    /\ Len(a) > Len(b)
    /\ \A i \in 1..Len(b) : a[i] = b[i]

\* C25: CheckRemoteRSLForUpdates returns (false, false) when the remote is
\* empty, when the tips are equal and when the local RSL is strictly ahead;
\* (true, false) when the local RSL is at the zero hash and when the remote
\* is strictly ahead; (true, true) exactly when neither tip is an ancestor
\* of the other; and never diverged without hasUpdate.
C25_CheckRemoteRSLForUpdates ==
    Checked =>
        LET c == sync.ret[1]
            result == <<c.hasUpdate, c.diverged>>
            local == sync.local
            remote == sync.remote
        IN  /\ (c.diverged => c.hasUpdate)
            /\ (remote = <<>> /\ ~sync.remoteOther => result = <<FALSE, FALSE>> /\ c.err = "")
            /\ (c.err = "" /\ remote # <<>> =>
                    /\ (local = <<>> => result = <<TRUE, FALSE>>)
                    /\ (local # <<>> /\ local = remote => result = <<FALSE, FALSE>>)
                    /\ (local # <<>> /\ StrictlyAhead(local, remote) => result = <<FALSE, FALSE>>)
                    /\ (local # <<>> /\ StrictlyAhead(remote, local) => result = <<TRUE, FALSE>>)
                    /\ (result = <<TRUE, TRUE>> <=>
                            /\ local # remote
                            /\ ~StrictlyAhead(local, remote)
                            /\ ~StrictlyAhead(remote, local)))

\* the two RSLs share an entry and have one more each: diverged
C25_Witness ==
    /\ Checked
    /\ sync.local = <<"l", "l">>
    /\ sync.remote = <<"l", "r">>
    /\ sync.ret[1].hasUpdate
    /\ sync.ret[1].diverged

(* ------------------ C26: authorizations keyed by change --------------- *)
\* the changes an authorization may be asked for
Changes == {"refs/heads/main", "refs/heads/feature"} \X {"a1", "b2"} \X {"c3", "d4"}

\* the envelope signed by s that authorizes the change k
EnvelopeFor(k, s) ==
    [payload |-> <<"b64", [subject |-> k[3], targetRef |-> k[1],
                           fromRevisionID |-> k[2], targetTreeID |-> k[3]]>>,
     sig |-> s]

\* the maps of the attestations
Maps(a) == <<a.referenceAuthorizations, a.githubPullRequestApprovalAttestations>>

\* what GetReferenceAuthorizationFor returns for the change k
Got(a, k) ==
    LET out == GetReferenceAuthorizationFor(a, k[1], k[2], k[3])
    IN  <<out.env, out.err>>

\* C26: reference authorizations are keyed by (refName, fromRevisionID,
\* targetTreeID): after a successful SetReferenceAuthorization,
\* GetReferenceAuthorizationFor with the same key returns that envelope;
\* after RemoveReferenceAuthorization it returns ErrAuthorizationNotFound;
\* and RemoveReferenceAuthorization for a key that is not set returns
\* ErrAuthorizationNotFound and leaves every other stored authorization
\* unchanged.
C26_KeyedByChange ==
    \A k \in Changes :
        /\ \A s \in {"alice", "bob"} :
            LET set == SetReferenceAuthorization(attestations, EnvelopeFor(k, s), k[1], k[2], k[3])
            IN  /\ set.err = {}
                /\ Got(set.a, k) = <<(<<EnvelopeFor(k, s)>>), {}>>
        /\ LET removed == RemoveReferenceAuthorization(attestations, k[1], k[2], k[3])
           IN  IF Got(attestations, k)[2] = {}
               THEN /\ removed.err = {}
                    /\ Got(removed.a, k) = <<(<<>>), {"ErrAuthorizationNotFound"}>>
               ELSE /\ removed.err = {"ErrAuthorizationNotFound"}
                    /\ Maps(removed.a) = Maps(attestations)
                    /\ \A other \in Changes : Got(removed.a, other) = Got(attestations, other)

\* an authorization is stored and the removal of another one, which is not,
\* has just been refused
C26_Witness ==
    /\ attestations.ret # <<>>
    /\ attestations.ret[1].op = "RemoveReferenceAuthorization"
    /\ attestations.ret[1].err = {"ErrAuthorizationNotFound"}
    /\ Got(attestations, <<"refs/heads/main", "a1", "c3">>) =
            <<(<<EnvelopeFor(<<"refs/heads/main", "a1", "c3">>, "bob")>>), {}>>

(* --------------- C27: authorizations that do not match ---------------- *)
\* the statement of an envelope names another change than k
Differs(env, k) ==
    LET st == env.payload[2]
    IN  \/ st.subject # k[3]
        \/ st.targetTreeID # k[3]
        \/ st.fromRevisionID # k[2]
        \/ st.targetRef # k[1]

\* the envelopes whose payload decodes
Decodable ==
    {env \in [payload : {<<"b64", st>> : st \in Statements}, sig : {"alice", "bob"}] : TRUE}

\* the blob at a path of a map holds an envelope whose statement names the
\* change the path stands for
KeyedAsStated(map) ==
    \A p \in DOMAIN map :
        LET st == map[p][2][2][2]
        IN  /\ map[p][2][2][1] = "b64"
            /\ st.subject = st.targetTreeID
            /\ p = st.targetRef \o "/" \o st.fromRevisionID \o "-" \o st.targetTreeID

\* C27: SetReferenceAuthorization and
\* SetGitHubPullRequestApprovalAttestation store nothing and return an error
\* wrapping ErrInvalidAuthorization (the latter joined with
\* ErrInvalidGitHubPullRequestApprovalAttestation) whenever the envelope's
\* subject tree digest, targetTreeID, fromRevisionID or targetRef differs
\* from the arguments; the maps are unchanged on that error, so every stored
\* authorization is keyed by exactly the details its payload states.
C27_MismatchRefused ==
    /\ \A k \in Changes, env \in Decodable :
        Differs(env, k) =>
            LET set == SetReferenceAuthorization(attestations, env, k[1], k[2], k[3])
                setApproval == SetGitHubPullRequestApprovalAttestation(attestations, env, k[1], k[2], k[3])
            IN  /\ "ErrInvalidAuthorization" \in set.err
                /\ Maps(set.a) = Maps(attestations)
                /\ {"ErrInvalidAuthorization", "ErrInvalidGitHubPullRequestApprovalAttestation"}
                        \subseteq setApproval.err
                /\ Maps(setApproval.a) = Maps(attestations)
    /\ KeyedAsStated(attestations.referenceAuthorizations)
    /\ KeyedAsStated(attestations.githubPullRequestApprovalAttestations)

\* an approval is stored and an authorization for another revision than the
\* one asked for has just been refused
C27_Witness ==
    /\ attestations.ret # <<>>
    /\ attestations.ret[1].op = "SetReferenceAuthorization"
    /\ attestations.ret[1].err = {"ErrInvalidAuthorization"}
    /\ attestations.referenceAuthorizations = EmptyMap
    /\ DOMAIN attestations.githubPullRequestApprovalAttestations = {"refs/heads/main/a1-c3"}

(* ----------------------- C28: developer mode only --------------------- *)
\* the command that has just run had to be in developer mode
NeededDevMode(c) ==
    \/ c.op = "RecordRSLEntryForReferenceAtTarget"
    \/ c.op = "verify-ref" /\ c.fromEntry # 0

\* C28: outside developer mode, `verify-ref --from-entry <id>` and
\* RecordRSLEntryForReferenceAtTarget return dev.ErrNotInDevMode without
\* verifying anything or writing any RSL entry; and verify-ref without
\* --from-entry never takes the VerifyRefFromEntry path.
C28_DevModeOnly ==
    [][repo'.cmd # <<>> =>
        LET c == repo'.cmd[1]
        IN  /\ (NeededDevMode(c) /\ ~repo.devMode =>
                    /\ c.err = "ErrNotInDevMode"
                    /\ c.path = ""
                    /\ repo'.call = <<>>
                    /\ repo'.rsl = repo.rsl)
            /\ (c.op = "verify-ref" /\ c.fromEntry = 0 => c.path = "VerifyRef")]_vars

\* outside developer mode, with an entry in the RSL, a verification from
\* that entry has just been refused
C28_Witness ==
    /\ ~repo.devMode
    /\ Len(repo.rsl) >= 1
    /\ repo.cmd # <<>>
    /\ repo.cmd[1].op = "verify-ref"
    /\ repo.cmd[1].fromEntry = 1
    /\ repo.cmd[1].err = "ErrNotInDevMode"

====
